---------------------------- MODULE Spec2Model ----------------------------
(***************************************************************************)
(* Finance-flow: the projection engine (growth-rate estimator, projection  *)
(* generator, projection request handler), the history filter and the     *)
(* breakdown over the persisted finances document, and the operations     *)
(* that change the document: the service methods, PUT /finances/data and   *)
(* the Data page, each call advancing from one await to the next, down to  *)
(* the repository's read() and write() with the lock, the temporary file   *)
(* and the rename.                                                         *)
(*                                                                         *)
(* Numbers.  JavaScript numbers are modelled as exact rationals            *)
(* [n |-> numerator, d |-> denominator > 0] kept in lowest terms, so that  *)
(* equal numbers are equal records.  Balances are whole numbers.           *)
(*                                                                         *)
(* Time.  A Date is the number of whole days since 1970-01-01; the server  *)
(* clock and every parsed date string are at midnight UTC, the server's    *)
(* time zone.  A time difference getTime() - getTime() is a number of days *)
(* and MILLISECONDS_PER_MONTH is 30.44 days.                               *)
(***************************************************************************)
EXTENDS Integers, Sequences, FiniteSets, TLC

VARIABLES
    categories,   \* persisted document: list of [name, color]
    history,      \* persisted document: list of [date, data]
    now,          \* the server clock, a Date
    request,      \* the query of the request a handler served last
    response,     \* the response of the request handler that ran last
    twinHistory,  \* the history of a second dataset, served the same request
    twinResponse, \* the response over the second dataset
    projArgs,     \* arguments of a direct call of generateProjections
    projRet,      \* its return value
    rateArgs,     \* arguments of a direct call of calculateGrowthRate
    rateRet,      \* its return value
    pc,           \* "ready" before the call or request, "done" after it
    callers,      \* per caller of a mutating operation: [pc, op, data, result]
    lock,         \* the caller that holds the lock on the data file, 0 when free
    pageData,     \* the Data page's state `data`: <<>> when null, else <<document>>
    budget,       \* the number of operations and page events still to be started
    lastUpdated,  \* persisted document: <<>> when it has no lastUpdated, else <<time>>
    disk,         \* per file path: "none", "partial" (being written) or "whole"
    container     \* the implementations in use: [repository, fileSystem]

storeVars == <<callers, lock, pageData, budget, lastUpdated, disk, container>>

vars == <<categories, history, now, request, response, twinHistory, twinResponse, projArgs, projRet, rateArgs, rateRet, pc, storeVars>>

-----------------------------------------------------------------------------
(* Rational arithmetic (JavaScript number arithmetic, exact).               *)

Abs(x) == IF x < 0 THEN -x ELSE x

RECURSIVE GCD(_, _)
GCD(a, b) == IF b = 0 THEN a ELSE GCD(b, a % b)

\* The number n/d (d # 0) in lowest terms with a positive denominator.
R(n, d) ==
    LET s == IF d < 0 THEN -1 ELSE 1
        g == GCD(Abs(n), Abs(d))
    IN  [n |-> (s * n) \div g, d |-> (s * d) \div g]

RInt(i) == [n |-> i, d |-> 1]
Zero == RInt(0)
One == RInt(1)

RAdd(a, b) ==
    LET g == GCD(a.d, b.d)
    IN  R(a.n * (b.d \div g) + b.n * (a.d \div g), (a.d \div g) * b.d)
RNeg(a) == [n |-> -a.n, d |-> a.d]
RSub(a, b) == RAdd(a, RNeg(b))
\* Cross-reduced before multiplying, to keep the intermediate products small.
RMul(a, b) ==
    LET g1 == GCD(Abs(a.n), b.d)
        g2 == GCD(Abs(b.n), a.d)
    IN  R((a.n \div g1) * (b.n \div g2), (a.d \div g2) * (b.d \div g1))
\* a / b for b # 0
RDiv(a, b) == RMul(a, R(b.d, b.n))
\* a < b, a <= b: the denominators are positive
RLt(a, b) ==
    LET g == GCD(a.d, b.d) IN a.n * (b.d \div g) < b.n * (a.d \div g)
RLe(a, b) == ~RLt(b, a)
\* Math.max and Math.min
RMax(a, b) == IF RLt(a, b) THEN b ELSE a
RMin(a, b) == IF RLt(b, a) THEN b ELSE a
RAbs(a) == [n |-> Abs(a.n), d |-> a.d]

-----------------------------------------------------------------------------
(* The calendar of the JavaScript Date object.                              *)

IsLeap(y) == (y % 4 = 0 /\ y % 100 # 0) \/ y % 400 = 0

DaysInMonth(y, m) ==
    IF m = 2 THEN (IF IsLeap(y) THEN 29 ELSE 28)
    ELSE IF m \in {4, 6, 9, 11} THEN 30 ELSE 31

\* Leap years in 1..y-1
LeapsBefore(y) == ((y - 1) \div 4) - ((y - 1) \div 100) + ((y - 1) \div 400)

\* Days from 1970-01-01 to January 1st of year y
DaysBeforeYear(y) == 365 * (y - 1970) + LeapsBefore(y) - LeapsBefore(1970)

\* Days from January 1st to the first day of month m (1..12) of year y
DaysBeforeMonth(y, m) ==
    <<0, 31, 59, 90, 120, 151, 181, 212, 243, 273, 304, 334>>[m]
        + (IF m > 2 /\ IsLeap(y) THEN 1 ELSE 0)

\* MakeDay of the Date object: the day number of (year, 0-based month, day of
\* month), where a month outside 0..11 carries into the year and a day of
\* month outside the month carries into the neighbouring months.
MakeDay(year, month, date) ==
    LET y == year + (month \div 12)
        m == (month % 12) + 1
    IN  DaysBeforeYear(y) + DaysBeforeMonth(y, m) + date - 1

\* getFullYear, getMonth (0-based) and getDate of a Date
YearOf(t) ==
    LET y == 1970 + (t \div 365)
    IN  IF DaysBeforeYear(y) <= t THEN y ELSE y - 1
MonthOf(t) ==
    LET y == YearOf(t)
        r == t - DaysBeforeYear(y)
    IN  (CHOOSE m \in 1..12 :
            /\ DaysBeforeMonth(y, m) <= r
            /\ (m = 12 \/ r < DaysBeforeMonth(y, m + 1))) - 1
DateOf(t) ==
    LET y == YearOf(t)
    IN  t - DaysBeforeYear(y) - DaysBeforeMonth(y, MonthOf(t) + 1) + 1


-----------------------------------------------------------------------------
(* routes/projections.ts: constants.                                        *)

MIN_HISTORY_POINTS_FOR_PROJECTION == 2
MIN_HISTORY_POINTS_FOR_ADVANCED_CALCULATION == 6
MONTHS_PER_YEAR == 12
\* cap of one month-over-month growth, +-50%
MAX_MONTHLY_GROWTH_RATE == R(1, 2)
MIN_MONTHLY_GROWTH_RATE == R(-1, 2)
\* cap of the start/end rate, +-10%
MAX_FALLBACK_MONTHLY_RATE == R(1, 10)
MIN_FALLBACK_MONTHLY_RATE == R(-1, 10)
\* 1000 * 60 * 60 * 24 * 30.44 ms, in days
MILLISECONDS_PER_MONTH == R(3044, 100)

-----------------------------------------------------------------------------
(* routes/projections.ts: calculateGrowthRate.                              *)

\* Array.prototype.sort((a, b) => a - b): insertion after the last element
\* that is not greater (the sort is stable).
RECURSIVE InsertNumber(_, _)
InsertNumber(sorted, x) ==
    IF sorted = <<>> THEN <<x>>
    ELSE IF RLt(x, sorted[Len(sorted)])
         THEN Append(InsertNumber(SubSeq(sorted, 1, Len(sorted) - 1), x), sorted[Len(sorted)])
         ELSE Append(sorted, x)

RECURSIVE SortNumbers(_)
SortNumbers(s) ==
    IF s = <<>> THEN <<>>
    ELSE InsertNumber(SortNumbers(SubSeq(s, 1, Len(s) - 1)), s[Len(s)])

\* Mutant of cappedGrowth: the growth of one step is not capped.
cappedGrowth_uncapped(monthlyGrowth) == monthlyGrowth

\* Math.max(MIN, Math.min(MAX, monthlyGrowth))
cappedGrowth(monthlyGrowth) ==
    RMax(MIN_MONTHLY_GROWTH_RATE, RMin(MAX_MONTHLY_GROWTH_RATE, monthlyGrowth))

\* The loop over i = 1 .. values.length - 1 (0-based), here i = 2 .. Len(values):
\* the capped growth of every adjacent pair whose previous value is > 0.
RECURSIVE monthlyGrowthsLoop(_, _, _)
monthlyGrowthsLoop(values, i, monthlyGrowths) ==
    IF i > Len(values) THEN monthlyGrowths
    ELSE LET currentValue == values[i]
             previousValue == values[i - 1]
         IN  IF previousValue > 0
             THEN monthlyGrowthsLoop(values, i + 1,
                      Append(monthlyGrowths,
                             cappedGrowth(R(currentValue - previousValue, previousValue))))
             ELSE monthlyGrowthsLoop(values, i + 1, monthlyGrowths)

monthlyGrowthsOf(values) == monthlyGrowthsLoop(values, 2, <<>>)

\* Mutant of medianOf: the mean of the growths instead of their median.
RECURSIVE SumNumbers(_)
SumNumbers(s) == IF s = <<>> THEN Zero ELSE RAdd(s[1], SumNumbers(Tail(s)))
medianOf_mean(monthlyGrowths) == RDiv(SumNumbers(monthlyGrowths), RInt(Len(monthlyGrowths)))

\* The median of a non-empty list: the middle element of the sorted list, or
\* the mean of the two middle elements (medianIndex is 0-based in the code).
medianOf(monthlyGrowths) ==
    LET sorted == SortNumbers(monthlyGrowths)
        medianIndex == Len(sorted) \div 2
    IN  IF Len(sorted) % 2 = 0
        THEN RDiv(RAdd(sorted[medianIndex], sorted[medianIndex + 1]), RInt(2))
        ELSE sorted[medianIndex + 1]

\* The advanced ("robust") branch is entered and returns.
robustPath(values) ==
    /\ Len(values) >= MIN_HISTORY_POINTS_FOR_ADVANCED_CALCULATION
    /\ Len(monthlyGrowthsOf(values)) > 0

\* Mutant of fallbackRate: the guard tests monthsDiff only, and a start value
\* of 0 divides by zero: the quotient is Infinity (NaN for 0/0), which the cap
\* turns into the maximum fallback rate.
fallbackRate_unguarded(values, dates) ==
    LET startValue == values[1]
        endValue == values[Len(values)]
        monthsDiff == RDiv(RInt(dates[Len(dates)] - dates[1]), MILLISECONDS_PER_MONTH)
    IN  IF RLe(monthsDiff, Zero)
        THEN [monthlyRate |-> Zero, annualRate |-> Zero]
        ELSE LET monthlyRate ==
                     IF startValue = 0 THEN MAX_FALLBACK_MONTHLY_RATE
                     ELSE RMax(MIN_FALLBACK_MONTHLY_RATE, RMin(MAX_FALLBACK_MONTHLY_RATE,
                              RDiv(RInt(endValue - startValue),
                                   RMul(RInt(startValue), monthsDiff))))
             IN  [monthlyRate |-> monthlyRate,
                  annualRate |-> RMul(monthlyRate, RInt(MONTHS_PER_YEAR))]

\* The start/end fallback, for values.length >= 2.
fallbackRate(values, dates) ==
    LET startValue == values[1]
        endValue == values[Len(values)]
        startDate == dates[1]
        endDate == dates[Len(dates)]
        monthsDiff == RDiv(RInt(endDate - startDate), MILLISECONDS_PER_MONTH)
    IN  IF RLe(monthsDiff, Zero) \/ startValue <= 0
        THEN [monthlyRate |-> Zero, annualRate |-> Zero]
        ELSE LET rawMonthlyRate ==
                     RDiv(RInt(endValue - startValue), RMul(RInt(startValue), monthsDiff))
                 monthlyRate ==
                     RMax(MIN_FALLBACK_MONTHLY_RATE, RMin(MAX_FALLBACK_MONTHLY_RATE, rawMonthlyRate))
             IN  [monthlyRate |-> monthlyRate,
                  annualRate |-> RMul(monthlyRate, RInt(MONTHS_PER_YEAR))]

calculateGrowthRate(values, dates) ==
    IF Len(values) < MIN_HISTORY_POINTS_FOR_PROJECTION
    THEN [monthlyRate |-> Zero, annualRate |-> Zero]
    ELSE IF robustPath(values)
    THEN LET monthlyRate == medianOf(monthlyGrowthsOf(values))
         IN  [monthlyRate |-> monthlyRate,
              annualRate |-> RMul(monthlyRate, RInt(MONTHS_PER_YEAR))]
    ELSE fallbackRate(values, dates)

-----------------------------------------------------------------------------
(* routes/projections.ts: generateProjections.                              *)

\* new Date(lastDate) followed by setMonth(getMonth() + i)
projectedDate(lastDate, i) ==
    MakeDay(YearOf(lastDate), MonthOf(lastDate) + i, DateOf(lastDate))

\* Mutant of projectedValue: each value compounds on the previous projected
\* value, lastValue * (1 + monthlyRate)^i.
RECURSIVE projectedValue_compounding(_, _, _)
projectedValue_compounding(lastValue, monthlyRate, i) ==
    IF i = 0 THEN RInt(lastValue)
    ELSE RMax(Zero, RMul(projectedValue_compounding(lastValue, monthlyRate, i - 1),
                         RAdd(One, monthlyRate)))

\* Mutant of projectedValue: the floor at 0 is missing.
projectedValue_unfloored(lastValue, monthlyRate, i) ==
    RMul(RInt(lastValue), RAdd(One, RMul(monthlyRate, RInt(i))))

\* Math.max(0, lastValue * (1 + monthlyRate * i))
projectedValue(lastValue, monthlyRate, i) ==
    RMax(Zero, RMul(RInt(lastValue), RAdd(One, RMul(monthlyRate, RInt(i)))))

\* for (let i = 1; i <= projectionMonths; i++) projections.push(...)
RECURSIVE projectionsLoop(_, _, _, _, _, _)
projectionsLoop(i, projections, lastValue, lastDate, monthlyRate, projectionMonths) ==
    IF i <= projectionMonths
    THEN projectionsLoop(i + 1,
             Append(projections, [date |-> projectedDate(lastDate, i),
                                  value |-> projectedValue(lastValue, monthlyRate, i)]),
             lastValue, lastDate, monthlyRate, projectionMonths)
    ELSE projections

\* Mutant of generateProjections: the loop stops one step early (i < projectionMonths).
generateProjections_short(lastValue, lastDate, monthlyRate, projectionMonths) ==
    projectionsLoop(1, <<>>, lastValue, lastDate, monthlyRate, projectionMonths - 1)

generateProjections(lastValue, lastDate, monthlyRate, projectionMonths) ==
    projectionsLoop(1, <<>>, lastValue, lastDate, monthlyRate, projectionMonths)

-----------------------------------------------------------------------------
(* Date strings.  A string is the record [form, y, m, d]: a string that    *)
(* matches /^\d{4}-\d{2}-\d{2}$/ has form "YYYY-MM-DD" and its three        *)
(* numbers, which need not form a calendar date; form "other" is a string   *)
(* that neither matches the pattern nor parses as a date, such as "soon";   *)
(* form "YYYY-MM-DDT00:00:00.000Z" is the date-time string of midnight UTC   *)
(* of that day, which does not match the pattern and parses as a date.      *)

YMD(y, m, d) == [form |-> "YYYY-MM-DD", y |-> y, m |-> m, d |-> d]
YMDT(y, m, d) == [form |-> "YYYY-MM-DDT00:00:00.000Z", y |-> y, m |-> m, d |-> d]
OtherString == [form |-> "other", y |-> 0, m |-> 0, d |-> 0]

\* The time value of an Invalid Date
NaN == -1000000

\* Date.parse / new Date(string), as V8 does it: in a YYYY-MM-DD string a
\* month in 1..12 and a day in 1..31 are accepted and a day past the end of
\* the month carries into the next month, the same with the time part of
\* midnight UTC; anything else is an Invalid Date.
DateParse(s) ==
    IF s.form \in {"YYYY-MM-DD", "YYYY-MM-DDT00:00:00.000Z"} /\ s.m \in 1..12 /\ s.d \in 1..31
    THEN MakeDay(s.y, s.m - 1, s.d)
    ELSE NaN

\* Relational comparison of two Dates: false when either is invalid.
DateLt(a, b) == a # NaN /\ b # NaN /\ a < b
DateGe(a, b) == a # NaN /\ b # NaN /\ a >= b

-----------------------------------------------------------------------------
(* routes/projections.ts: GET /projections/data.                            *)

MIN_CALCULATION_PERIOD_MONTHS == 3
MAX_CALCULATION_PERIOD_MONTHS == 24
DEFAULT_CALCULATION_PERIOD_MONTHS == 12
MIN_PROJECTION_PERIOD_MONTHS == 3
MAX_PROJECTION_PERIOD_MONTHS == 60
DEFAULT_PROJECTION_PERIOD_MONTHS == 12

\* z.coerce.number().min(lo).max(hi).default(dflt) on a query parameter, which
\* is <<>> when absent and <<n>> when it is the text of the whole number n.
coerceNumber(param, lo, hi, dflt) ==
    IF param = <<>> THEN [ok |-> TRUE, value |-> dflt]
    ELSE IF param[1] < lo \/ param[1] > hi THEN [ok |-> FALSE, value |-> param[1]]
    ELSE [ok |-> TRUE, value |-> param[1]]

\* ProjectionConfigSchema.parse(req.query): ok is FALSE when parse throws.
ProjectionConfigSchema(query) ==
    LET c == coerceNumber(query.calculationPeriodMonths, MIN_CALCULATION_PERIOD_MONTHS,
                          MAX_CALCULATION_PERIOD_MONTHS, DEFAULT_CALCULATION_PERIOD_MONTHS)
        p == coerceNumber(query.projectionPeriodMonths, MIN_PROJECTION_PERIOD_MONTHS,
                          MAX_PROJECTION_PERIOD_MONTHS, DEFAULT_PROJECTION_PERIOD_MONTHS)
    IN  [ok |-> c.ok /\ p.ok,
         config |-> [calculationPeriodMonths |-> c.value, projectionPeriodMonths |-> p.value]]

\* new Date(now.getFullYear(), now.getMonth() - calculationPeriodMonths, now.getDate())
calculationStartDate(clock, configParams) ==
    MakeDay(YearOf(clock), MonthOf(clock) - configParams.calculationPeriodMonths, DateOf(clock))

\* history.filter(record => new Date(record.date) >= calculationStartDate)
RECURSIVE filterFrom(_, _)
filterFrom(records, startDate) ==
    IF records = <<>> THEN <<>>
    ELSE IF DateGe(DateParse(Head(records).date), startDate)
         THEN <<Head(records)>> \o filterFrom(Tail(records), startDate)
         ELSE filterFrom(Tail(records), startDate)

\* .sort((a, b) => new Date(a.date).getTime() - new Date(b.date).getTime()):
\* a stable sort, ascending by time value.
RECURSIVE InsertRecord(_, _)
InsertRecord(sorted, x) ==
    IF sorted = <<>> THEN <<x>>
    ELSE IF DateParse(x.date) < DateParse(sorted[Len(sorted)].date)
         THEN Append(InsertRecord(SubSeq(sorted, 1, Len(sorted) - 1), x), sorted[Len(sorted)])
         ELSE Append(sorted, x)

RECURSIVE SortRecords(_)
SortRecords(s) ==
    IF s = <<>> THEN <<>>
    ELSE InsertRecord(SortRecords(SubSeq(s, 1, Len(s) - 1)), s[Len(s)])

\* Mutant of filteredHistoryOf: the sort is missing.
filteredHistoryOf_unsorted(records, startDate) == filterFrom(records, startDate)

filteredHistoryOf(records, startDate) == SortRecords(filterFrom(records, startDate))

\* Mutant of valueOf: the balance of a point is its total over all categories.
RECURSIVE SumOver(_, _)
SumOver(data, names) ==
    IF names = {} THEN 0
    ELSE LET k == CHOOSE k \in names : TRUE IN data[k] + SumOver(data, names \ {k})
valueOf_total(record, name) == SumOver(record.data, DOMAIN record.data)

\* record.data[category.name] || 0
valueOf(record, name) ==
    IF name \in DOMAIN record.data THEN record.data[name] ELSE 0

\* The body of the loop over the categories: the growth rates entry and the
\* series of one category.
categoryProjection(category, filteredHistory, configParams) ==
    LET n == Len(filteredHistory)
        categoryValues == [i \in 1..n |-> valueOf(filteredHistory[i], category.name)]
        categoryDates == [i \in 1..n |-> DateParse(filteredHistory[i].date)]
        growthData == calculateGrowthRate(categoryValues, categoryDates)
        lastValue == categoryValues[n]
        lastDate == categoryDates[n]
        historicalData ==
            [i \in 1..n |-> [date |-> DateParse(filteredHistory[i].date),
                             value |-> RInt(valueOf(filteredHistory[i], category.name)),
                             isProjected |-> FALSE]]
        projections == generateProjections(lastValue, lastDate, growthData.monthlyRate,
                                           configParams.projectionPeriodMonths)
        projectedData ==
            [i \in 1..Len(projections) |-> [date |-> projections[i].date,
                                            value |-> projections[i].value,
                                            isProjected |-> TRUE]]
    IN  [growthRate |-> [category |-> category.name,
                         monthlyRate |-> growthData.monthlyRate,
                         annualRate |-> growthData.annualRate],
         series |-> [name |-> category.name,
                     color |-> category.color,
                     data |-> historicalData \o projectedData,
                     growthRate |-> growthData.annualRate]]

\* Mutant of projectionsData: the window is filtered before the history is
\* tested for emptiness, so an empty history is reported as insufficient.
projectionsData_insufficientFirst(query, cats, hist, clock) ==
    LET parsed == ProjectionConfigSchema(query)
        configParams == parsed.config
        filteredHistory == filteredHistoryOf(hist, calculationStartDate(clock, configParams))
        perCategory == [k \in 1..Len(cats) |->
                           categoryProjection(cats[k], filteredHistory, configParams)]
    IN  IF ~parsed.ok
        THEN [kind |-> "error", status |-> 400, code |-> "VALIDATION_ERROR"]
        ELSE IF Len(filteredHistory) < MIN_HISTORY_POINTS_FOR_PROJECTION
        THEN [kind |-> "error", status |-> 400, code |-> "INSUFFICIENT_DATA"]
        ELSE IF Len(hist) = 0
        THEN [kind |-> "error", status |-> 404, code |-> "NO_DATA"]
        ELSE [kind |-> "ok", status |-> 200,
              series |-> [k \in 1..Len(cats) |-> perCategory[k].series],
              growthRates |-> [k \in 1..Len(cats) |-> perCategory[k].growthRate],
              config |-> configParams]

\* The handler: the response to a request with this query, over the document
\* financesService.readFinancesData() returns, at this time of the clock.
projectionsData(query, cats, hist, clock) ==
    LET parsed == ProjectionConfigSchema(query)
        configParams == parsed.config
        filteredHistory == filteredHistoryOf(hist, calculationStartDate(clock, configParams))
        perCategory == [k \in 1..Len(cats) |->
                           categoryProjection(cats[k], filteredHistory, configParams)]
    IN  IF ~parsed.ok
        THEN [kind |-> "error", status |-> 400, code |-> "VALIDATION_ERROR"]
        ELSE IF Len(hist) = 0
        THEN [kind |-> "error", status |-> 404, code |-> "NO_DATA"]
        ELSE IF Len(filteredHistory) < MIN_HISTORY_POINTS_FOR_PROJECTION
        THEN [kind |-> "error", status |-> 400, code |-> "INSUFFICIENT_DATA"]
        ELSE [kind |-> "ok", status |-> 200,
              series |-> [k \in 1..Len(cats) |-> perCategory[k].series],
              growthRates |-> [k \in 1..Len(cats) |-> perCategory[k].growthRate],
              config |-> configParams]

-----------------------------------------------------------------------------
(* routes/finances.ts: DateFilterSchema, filterHistoryData, GET /history.   *)

\* A query parameter is <<>> when absent and <<s>> when it is the string s.
Periods == {"3months", "1year", "all"}

\* DateFilterSchema.parse(req.query) does not throw: from and to match the
\* digit pattern when present, period is one of the enum's when present.
DateFilterSchema(query) ==
    /\ query.from # <<>> => query.from[1].form = "YYYY-MM-DD"
    /\ query.to # <<>> => query.to[1].form = "YYYY-MM-DD"
    /\ query.period # <<>> => query.period[1] \in Periods

\* Variant of the filter that also drops the first record of its input.
filterBetween_skipFirst(records, fromDate, toDate) ==
    LET Keep(record) ==
            /\ ~(fromDate # <<>> /\ DateLt(DateParse(record.date), fromDate[1]))
            /\ ~(toDate # <<>> /\ DateLt(toDate[1], DateParse(record.date)))
    IN  IF records = <<>> THEN <<>> ELSE SelectSeq(Tail(records), Keep)

\* Variant of the filter with exclusive bounds: a record on a bound is dropped.
filterBetween_exclusive(records, fromDate, toDate) ==
    LET Keep(record) ==
            /\ fromDate # <<>> => DateLt(fromDate[1], DateParse(record.date))
            /\ toDate # <<>> => DateLt(DateParse(record.date), toDate[1])
    IN  SelectSeq(records, Keep)

\* history.filter(record => ...): a bound is <<>> when null, else <<Date>>;
\* a comparison with an Invalid Date is false.
RECURSIVE filterBetween(_, _, _)
filterBetween(records, fromDate, toDate) ==
    IF records = <<>> THEN <<>>
    ELSE LET recordDate == DateParse(Head(records).date)
             rest == filterBetween(Tail(records), fromDate, toDate)
         IN  IF fromDate # <<>> /\ DateLt(recordDate, fromDate[1]) THEN rest
             ELSE IF toDate # <<>> /\ DateLt(toDate[1], recordDate) THEN rest
             ELSE <<Head(records)>> \o rest

\* Variant in which period '3months' has no upper bound at the clock.
filterHistoryData_openEnded(hist, filters, clock) ==
    IF filters.from = <<>> /\ filters.to = <<>> /\ filters.period = <<>>
    THEN hist
    ELSE IF filters.period # <<>>
    THEN IF filters.period[1] = "3months"
         THEN filterBetween(hist,
                  <<MakeDay(YearOf(clock), MonthOf(clock) - 3, DateOf(clock))>>, <<>>)
         ELSE IF filters.period[1] = "1year"
         THEN filterBetween(hist,
                  <<MakeDay(YearOf(clock) - 1, MonthOf(clock), DateOf(clock))>>, <<clock>>)
         ELSE hist
    ELSE filterBetween(hist,
             IF filters.from # <<>> THEN <<DateParse(filters.from[1])>> ELSE <<>>,
             IF filters.to # <<>> THEN <<DateParse(filters.to[1])>> ELSE <<>>)

\* Variant in which explicit bounds, when given, win over the period.
filterHistoryData_boundsFirst(hist, filters, clock) ==
    IF filters.from = <<>> /\ filters.to = <<>> /\ filters.period = <<>>
    THEN hist
    ELSE IF filters.from # <<>> \/ filters.to # <<>>
    THEN filterBetween(hist,
             IF filters.from # <<>> THEN <<DateParse(filters.from[1])>> ELSE <<>>,
             IF filters.to # <<>> THEN <<DateParse(filters.to[1])>> ELSE <<>>)
    ELSE IF filters.period[1] = "3months"
         THEN filterBetween(hist,
                  <<MakeDay(YearOf(clock), MonthOf(clock) - 3, DateOf(clock))>>, <<clock>>)
         ELSE IF filters.period[1] = "1year"
         THEN filterBetween(hist,
                  <<MakeDay(YearOf(clock) - 1, MonthOf(clock), DateOf(clock))>>, <<clock>>)
         ELSE hist

filterHistoryData(hist, filters, clock) ==
    IF filters.from = <<>> /\ filters.to = <<>> /\ filters.period = <<>>
    THEN hist
    ELSE IF filters.period # <<>>
    THEN IF filters.period[1] = "3months"
         THEN filterBetween(hist,
                  <<MakeDay(YearOf(clock), MonthOf(clock) - 3, DateOf(clock))>>, <<clock>>)
         ELSE IF filters.period[1] = "1year"
         THEN filterBetween(hist,
                  <<MakeDay(YearOf(clock) - 1, MonthOf(clock), DateOf(clock))>>, <<clock>>)
         ELSE hist
    ELSE filterBetween(hist,
             IF filters.from # <<>> THEN <<DateParse(filters.from[1])>> ELSE <<>>,
             IF filters.to # <<>> THEN <<DateParse(filters.to[1])>> ELSE <<>>)

\* GET /history: the response to a request with this query.
historyData(query, cats, hist, clock) ==
    IF ~DateFilterSchema(query)
    THEN [kind |-> "error", status |-> 400, code |-> "VALIDATION_ERROR"]
    ELSE [kind |-> "ok", status |-> 200,
          history |-> filterHistoryData(hist, query, clock),
          categories |-> cats]

\* breakdown.reduce((sum, item) => sum + item.value, 0)
RECURSIVE totalOf(_)
totalOf(breakdown) ==
    IF breakdown = <<>> THEN 0
    ELSE totalOf(SubSeq(breakdown, 1, Len(breakdown) - 1)) + breakdown[Len(breakdown)].value

\* GET /breakdown: the response to a request with this query.
breakdownData(query, cats, hist, clock) ==
    IF ~DateFilterSchema(query)
    THEN [kind |-> "error", status |-> 400, code |-> "VALIDATION_ERROR"]
    ELSE LET filteredHistory == filterHistoryData(hist, query, clock)
             latestRecord == filteredHistory[Len(filteredHistory)]
             breakdown == [k \in 1..Len(cats) |->
                              [category |-> cats[k].name,
                               value |-> valueOf(latestRecord, cats[k].name),
                               color |-> cats[k].color]]
         IN  IF Len(filteredHistory) = 0
             THEN [kind |-> "error", status |-> 404, code |-> "none"]
             ELSE [kind |-> "ok", status |-> 200,
                   breakdown |-> breakdown, total |-> totalOf(breakdown)]

-----------------------------------------------------------------------------
(* services/financesDataService.ts, repositories/FileFinancesRepository.ts  *)
(* and routes/finances.ts PUT /data: the persisted document and the         *)
(* operations that change it.                                               *)

\* A FinancesData value; lastUpdated is optional: <<>> when absent, else
\* <<time>>, the time new Date().toISOString() was called at.  Doc is a value
\* without lastUpdated.
Doc(cats, hist) == [categories |-> cats, history |-> hist, lastUpdated |-> <<>>]

\* VALIDATION.CATEGORY_NAME_MIN_LENGTH and VALIDATION.CATEGORY_NAME_MAX_LENGTH
CATEGORY_NAME_MIN_LENGTH == 1
CATEGORY_NAME_MAX_LENGTH == 100

\* The strings of the model that match /^#[0-9A-F]{6}$/i
HexColors == {"#111111", "#222222", "#6B7280"}

\* FinanceCategoryInfoSchema: a name of 1 to 100 characters and a hex colour
FinanceCategoryInfoSchema(category) ==
    /\ Len(category.name) >= CATEGORY_NAME_MIN_LENGTH
    /\ Len(category.name) <= CATEGORY_NAME_MAX_LENGTH
    /\ category.color \in HexColors

\* Mutant of FinanceHistoryPointSchema: a balance is any number.
FinanceHistoryPointSchema_anyBalance(point) ==
    /\ DateParse(point.date) # NaN
    /\ \A k \in DOMAIN point.data : k # ""

\* FinanceHistoryPointSchema: a date string that Date.parse reads, and
\* non-negative balances under non-empty names
FinanceHistoryPointSchema(point) ==
    /\ DateParse(point.date) # NaN
    /\ \A k \in DOMAIN point.data : k # "" /\ point.data[k] >= 0

\* FinancesDataSchema.parse(data) does not throw
FinancesDataSchema(data) ==
    /\ \A i \in 1..Len(data.categories) : FinanceCategoryInfoSchema(data.categories[i])
    /\ \A i \in 1..Len(data.history) : FinanceHistoryPointSchema(data.history[i])

\* The issues of the ZodError FinancesDataSchema.parse(data) throws, each the
\* path of the field it is about: list, position in the list (from 1), field
\* and, for a balance, its key.
Field(list, index, field, key) ==
    [list |-> list, index |-> index, field |-> field, key |-> key]

zodIssues(data) ==
    {Field("categories", i, "name", "") :
        i \in {j \in 1..Len(data.categories) :
                  \/ Len(data.categories[j].name) < CATEGORY_NAME_MIN_LENGTH
                  \/ Len(data.categories[j].name) > CATEGORY_NAME_MAX_LENGTH}}
    \cup {Field("categories", i, "color", "") :
              i \in {j \in 1..Len(data.categories) : data.categories[j].color \notin HexColors}}
    \cup {Field("history", i, "date", "") :
              i \in {j \in 1..Len(data.history) : DateParse(data.history[j].date) = NaN}}
    \cup UNION {{Field("history", i, "data", k) :
                    k \in {key \in DOMAIN data.history[i].data :
                              key = "" \/ data.history[i].data[key] < 0}} :
                i \in 1..Len(data.history)}

\* new ApiError(message, statusCode, code), and the outcome of a call that
\* did not throw
ApiError(statusCode, code) == [status |-> statusCode, code |-> code]
Success == [status |-> 200, code |-> "none"]
NoResult == [status |-> 0, code |-> "none"]

\* A ZodError with its issues
ZodError(issues) == [name |-> "ZodError", issues |-> issues]

\* utils/errorHandler.ts handleError: the status, code and details of the
\* response for an error a handler caught
handleError(error) ==
    IF "issues" \in DOMAIN error
    THEN [status |-> 400, code |-> "VALIDATION_ERROR", details |-> error.issues]
    ELSE error

\* Array.prototype.findIndex, given for each index whether its element
\* passes the test: the first index that does, 0 when there is none
\* (JavaScript's -1)
findIndex(passes) ==
    IF \E i \in 1..Len(passes) : passes[i]
    THEN CHOOSE i \in 1..Len(passes) : passes[i] /\ \A j \in 1..(i - 1) : ~passes[j]
    ELSE 0

\* delete data[name]
deleteKey(data, name) == [k \in (DOMAIN data) \ {name} |-> data[k]]

\* The synchronous part of each service method, between the await of the
\* read and the await of the write: the error thrown (<<>> when none) and the
\* document handed to writeFinancesData.  timestamp is the value of
\* new Date().toISOString() in data.lastUpdated = new Date().toISOString().

addCategory(data, category, timestamp) ==
    IF \E i \in 1..Len(data.categories) : data.categories[i].name = category.name
    THEN [error |-> <<ApiError(400, "DUPLICATE_CATEGORY")>>, data |-> data]
    ELSE [error |-> <<>>,
          data |-> [data EXCEPT !.categories = Append(@, category),
                                !.lastUpdated = <<timestamp>>]]

\* { ...data.categories[categoryIndex], ...updates }: updates is a record
\* with some of the fields name and color
updateCategory(data, categoryName, updates, timestamp) ==
    LET categoryIndex == findIndex([i \in 1..Len(data.categories) |->
                                       data.categories[i].name = categoryName])
    IN  IF categoryIndex = 0
        THEN [error |-> <<ApiError(404, "CATEGORY_NOT_FOUND")>>, data |-> data]
        ELSE [error |-> <<>>,
              data |-> [data EXCEPT !.categories[categoryIndex] = updates @@ @,
                                    !.lastUpdated = <<timestamp>>]]

\* Mutant of removeCategory: the category leaves the list and its balances
\* stay in the history points.
removeCategory_categoriesOnly(data, categoryName, timestamp) ==
    LET Other(c) == c.name # categoryName
        kept == SelectSeq(data.categories, Other)
    IN  IF Len(kept) = Len(data.categories)
        THEN [error |-> <<ApiError(404, "CATEGORY_NOT_FOUND")>>, data |-> data]
        ELSE [error |-> <<>>,
              data |-> [data EXCEPT !.categories = kept, !.lastUpdated = <<timestamp>>]]

removeCategory(data, categoryName, timestamp) ==
    LET Other(c) == c.name # categoryName
        kept == SelectSeq(data.categories, Other)
    IN  IF Len(kept) = Len(data.categories)
        THEN [error |-> <<ApiError(404, "CATEGORY_NOT_FOUND")>>, data |-> data]
        ELSE [error |-> <<>>,
              data |-> [categories |-> kept,
                        history |-> [i \in 1..Len(data.history) |->
                                        [date |-> data.history[i].date,
                                         data |-> deleteKey(data.history[i].data, categoryName)]],
                        lastUpdated |-> <<timestamp>>]]

\* The dates are compared as strings: p.date === historyPoint.date
addHistoryPoint(data, historyPoint, timestamp) ==
    LET existingPointIndex == findIndex([i \in 1..Len(data.history) |->
                                            data.history[i].date = historyPoint.date])
    IN  IF existingPointIndex # 0
        THEN [error |-> <<>>,
              data |-> [data EXCEPT !.history[existingPointIndex] = historyPoint,
                                    !.lastUpdated = <<timestamp>>]]
        ELSE [error |-> <<>>,
              data |-> [data EXCEPT !.history = SortRecords(Append(@, historyPoint)),
                                    !.lastUpdated = <<timestamp>>]]

\* The service method an operation record names, applied to the document read
serviceMethod(op, data, timestamp) ==
    CASE op.kind = "addCategory" -> addCategory(data, op.category, timestamp)
      [] op.kind = "updateCategory" ->
             updateCategory(data, op.categoryName, op.updates, timestamp)
      [] op.kind = "removeCategory" -> removeCategory(data, op.categoryName, timestamp)
      [] op.kind = "addHistoryPoint" -> addHistoryPoint(data, op.historyPoint, timestamp)

\* The message of the error a lock attempt on a held lock ends with:
\* proper-lockfile's under FileSystemService, MockFileSystemService's own.
heldLockMessage(fileSystem) ==
    IF fileSystem = "MockFileSystemService"
    THEN "EBUSY: resource busy or locked"
    ELSE "Lock file is already being held"

\* The implementations the application runs with
Production == [repository |-> "FileFinancesRepository", fileSystem |-> "FileSystemService"]

\* FileFinancesRepository.write, catch block: the ApiError for an error that
\* is not a ZodError; error.message.includes('EBUSY') selects FILE_BUSY.
writeError(message) ==
    IF message \in {"EBUSY: resource busy or locked"}
    THEN ApiError(409, "FILE_BUSY")
    ELSE ApiError(500, "WRITE_ERROR")

\* The callers of mutating operations that can be in progress at once
StoreCallers == {1, 2}

NoOperation == [kind |-> "none"]
IdleCaller == [pc |-> "idle", op |-> NoOperation, data |-> Doc(<<>>, <<>>), result |-> NoResult]

\* Mutant of tempFilePath: atomicWrite writes the data file in place.
tempFilePath_inPlace(filePath) == filePath

\* The path of the data file, and of the temporary file atomicWrite writes
DataFilePath == "finances-data.json"
tempFilePath(filePath) == filePath \o ".tmp"

\* The data file is there and no temporary file is
DataFileOnly ==
    [path \in {DataFilePath, tempFilePath(DataFilePath)} |->
        IF path = DataFilePath THEN "whole" ELSE "none"]

\* The store as the request specifications hold it: nothing in progress.
IdleStore ==
    /\ callers = [c \in StoreCallers |-> IdleCaller]
    /\ lock = 0
    /\ pageData = <<>>
    /\ budget = 0
    /\ lastUpdated = <<>>
    /\ disk = DataFileOnly
    /\ container = Production

-----------------------------------------------------------------------------
(* The Data page (frontend): the updaters it passes to setData, and the     *)
(* document saveData sends.  Indices are 1-based.                           *)

NewCategory == [name |-> "New Category", color |-> "#6B7280"]

\* Data.addCategory
DataAddCategory(prevData) ==
    [prevData EXCEPT
        !.categories = Append(prevData.categories, NewCategory),
        !.history = [i \in 1..Len(prevData.history) |->
                        [date |-> prevData.history[i].date,
                         data |-> (NewCategory.name :> 0) @@ prevData.history[i].data]]]

\* Data.updateCategory
DataUpdateCategory(prevData, index, updatedCategory) ==
    LET oldName == prevData.categories[index].name
        newCategories == [prevData.categories EXCEPT ![index] = updatedCategory]
        renamed(record) ==
            IF oldName \notin DOMAIN record.data THEN record
            ELSE [date |-> record.date,
                  data |-> deleteKey((updatedCategory.name :> record.data[oldName]) @@ record.data,
                                     oldName)]
    IN  IF oldName = updatedCategory.name
        THEN [prevData EXCEPT !.categories = newCategories]
        ELSE [prevData EXCEPT
                 !.categories = newCategories,
                 !.history = [i \in 1..Len(prevData.history) |-> renamed(prevData.history[i])]]

\* Data.removeCategory
DataRemoveCategory(prevData, index) ==
    LET categoryName == prevData.categories[index].name
    IN  [prevData EXCEPT
            !.categories = [i \in 1..(Len(prevData.categories) - 1) |->
                               IF i < index THEN prevData.categories[i]
                               ELSE prevData.categories[i + 1]],
            !.history = [i \in 1..Len(prevData.history) |->
                            [date |-> prevData.history[i].date,
                             data |-> deleteKey(prevData.history[i].data, categoryName)]]]

\* new Date().toISOString().split('T')[0]
todayString(clock) == YMD(YearOf(clock), MonthOf(clock) + 1, DateOf(clock))

\* Data.addHistoryRecord
DataAddHistoryRecord(prevData, clock) ==
    [prevData EXCEPT
        !.history =
            Append(prevData.history,
                   [date |-> todayString(clock),
                    data |-> [k \in {prevData.categories[i].name :
                                         i \in 1..Len(prevData.categories)} |-> 0]])]

\* Data.updateHistoryRecord
DataUpdateHistoryRecord(prevData, index, updatedRecord) ==
    [prevData EXCEPT !.history[index] = updatedRecord]

\* Data.removeHistoryRecord
DataRemoveHistoryRecord(prevData, index) ==
    [prevData EXCEPT !.history =
        [i \in 1..(Len(@) - 1) |-> IF i < index THEN @[i] ELSE @[i + 1]]]

\* Data.saveData: sortedData
sortedData(data) == [data EXCEPT !.history = SortRecords(@)]

-----------------------------------------------------------------------------
(* Direct calls of generateProjections.                                     *)

MaxProjectionMonths == 3

ProjValues == {0, 100, 1000}
ProjRates == {RInt(-2), R(-1, 2), R(-1, 10), Zero, R(1, 20), R(1, 2)}
ProjDates == {MakeDay(2024, 0, 15), MakeDay(2024, 0, 31), MakeDay(2023, 11, 31)}

NoRequest == [route |-> "none"]
NoResponse == [kind |-> "none"]
NoRate == [monthlyRate |-> Zero, annualRate |-> Zero]
NoProjArgs == [lastValue |-> 0, lastDate |-> 0, monthlyRate |-> Zero, projectionMonths |-> 0]
NoRateArgs == [values |-> <<>>, dates |-> <<>>]

InitProject ==
    /\ projArgs \in [lastValue : ProjValues, lastDate : ProjDates,
                     monthlyRate : ProjRates, projectionMonths : 0..MaxProjectionMonths]
    /\ projRet = <<>>
    /\ pc = "ready"
    /\ categories = <<>> /\ history = <<>> /\ now = 0 /\ request = NoRequest /\ response = NoResponse
    /\ twinHistory = <<>> /\ twinResponse = NoResponse
    /\ rateArgs = NoRateArgs /\ rateRet = NoRate
    /\ IdleStore

CallGenerateProjections ==
    /\ pc = "ready"
    /\ projRet' = generateProjections(projArgs.lastValue, projArgs.lastDate,
                                      projArgs.monthlyRate, projArgs.projectionMonths)
    /\ pc' = "done"
    /\ UNCHANGED <<storeVars, categories, history, now, request, response, twinHistory, twinResponse, projArgs, rateArgs, rateRet>>

NextProject == CallGenerateProjections

SpecProject == InitProject /\ [][NextProject]_vars

-----------------------------------------------------------------------------
(* Direct calls of calculateGrowthRate.                                     *)

MaxValues == 6

RateValues == {0, 100, 110, 400}
SpikeValues == <<1000, 1010, 1020, 1030, 5000, 1050>>
DatePatterns == {"monthly", "same", "descending"}

\* n dates: one a month from 2024-01-15, n times the same date, or one a
\* month backwards.
rateDates(n, pattern) ==
    [i \in 1..n |->
        IF pattern = "monthly" THEN MakeDay(2024, i - 1, 15)
        ELSE IF pattern = "same" THEN MakeDay(2024, 0, 15)
        ELSE MakeDay(2024, n - i, 15)]

RateInputs ==
    {[values |-> v, dates |-> rateDates(Len(v), p)] :
        v \in (UNION {[1..n -> RateValues] : n \in 0..MaxValues}) \cup {SpikeValues},
        p \in DatePatterns}

InitRate ==
    /\ rateArgs \in RateInputs
    /\ rateRet = NoRate
    /\ pc = "ready"
    /\ categories = <<>> /\ history = <<>> /\ now = 0 /\ request = NoRequest /\ response = NoResponse
    /\ twinHistory = <<>> /\ twinResponse = NoResponse
    /\ projArgs = NoProjArgs /\ projRet = <<>>
    /\ IdleStore

CallCalculateGrowthRate ==
    /\ pc = "ready"
    /\ rateRet' = calculateGrowthRate(rateArgs.values, rateArgs.dates)
    /\ pc' = "done"
    /\ UNCHANGED <<storeVars, categories, history, now, request, response, twinHistory, twinResponse, projArgs, projRet, rateArgs>>

NextRate == CallCalculateGrowthRate

SpecRate == InitRate /\ [][NextRate]_vars

-----------------------------------------------------------------------------
(* Requests to GET /projections/data over a persisted document.             *)

MaxHistory == 2

CatA == [name |-> "A", color |-> "#111111"]
CatB == [name |-> "B", color |-> "#222222"]
CategoryLists == {<<>>, <<CatA, CatB>>, <<CatB, CatA>>}

\* "2024-02-30" is read as 2024-03-01.
HistoryDates == {YMD(2024, 2, 30), YMD(2024, 3, 2), YMD(2024, 4, 15)}
Balances == {("A" :> 100) @@ ("B" :> 50), ("A" :> 104) @@ ("B" :> 50), ("B" :> 50)}
HistoryPoints == [date : HistoryDates, data : Balances]

\* Six monthly points, 2023-12-15 to 2024-05-15, stored in ascending or in
\* descending order.
monthlyHistory(valuesA, valuesB, ascending) ==
    [i \in 1..6 |->
        LET j == IF ascending THEN i ELSE 7 - i
        IN  [date |-> IF j = 1 THEN YMD(2023, 12, 15) ELSE YMD(2024, j - 1, 15),
             data |-> ("A" :> valuesA[j]) @@ ("B" :> valuesB[j])]]
MonthlyHistories ==
    {monthlyHistory(a, b, asc) :
        a \in {<<100, 101, 102, 103, 500, 105>>, <<0, 0, 0, 0, 0, 0>>},
        b \in {<<50, 50, 50, 50, 50, 50>>, <<50, 0, 50, 100, 50, 60>>},
        asc \in BOOLEAN}

Histories == (UNION {[1..n -> HistoryPoints] : n \in 0..MaxHistory}) \cup MonthlyHistories

\* 2024-05-31 (three months back is "February 31st") and 2024-06-15
Clocks == {MakeDay(2024, 4, 31), MakeDay(2024, 5, 15)}

Queries ==
    {[route |-> "projections", calculationPeriodMonths |-> c, projectionPeriodMonths |-> p] :
        <<c, p>> \in {<< <<>>, <<>> >>, << <<3>>, <<3>> >>, << <<24>>, <<4>> >>,
                      << <<2>>, <<3>> >>, << <<3>>, <<61>> >>}}

InitRequest ==
    /\ categories \in CategoryLists
    /\ history \in Histories
    /\ now \in Clocks
    /\ request = NoRequest
    /\ response = NoResponse
    /\ twinHistory = <<>> /\ twinResponse = NoResponse
    /\ pc = "ready"
    /\ projArgs = NoProjArgs /\ projRet = <<>>
    /\ rateArgs = NoRateArgs /\ rateRet = NoRate
    /\ IdleStore

GetProjectionsData ==
    /\ pc = "ready"
    /\ \E query \in Queries :
           /\ request' = query
           /\ response' = projectionsData(query, categories, history, now)
    /\ pc' = "done"
    /\ UNCHANGED <<storeVars, categories, history, now, twinHistory, twinResponse,
                   projArgs, projRet, rateArgs, rateRet>>

NextRequest == GetProjectionsData

SpecRequest == InitRequest /\ [][NextRequest]_vars

-----------------------------------------------------------------------------
(* The same request to GET /projections/data over two datasets that have    *)
(* the same categories, the same history dates and the same balances of     *)
(* category A, and any balances of category B.                              *)

D1 == YMD(2024, 2, 30)
D2 == YMD(2024, 3, 2)
D3 == YMD(2024, 4, 15)
Mth(j) == IF j = 1 THEN YMD(2023, 12, 15) ELSE YMD(2024, j - 1, 15)
PairDates ==
    {<<D2, D3>>, <<D3, D2>>, <<D1, D2, D3>>, <<D3, D1, D3>>,
     [j \in 1..6 |-> Mth(j)], [j \in 1..6 |-> Mth(7 - j)]}

\* A balance is <<>> when the category is absent from the point.
PairBalancesA(n) ==
    IF n < 6 THEN [1..n -> {<<>>, <<100>>, <<104>>}]
    ELSE {<<<<100>>, <<101>>, <<102>>, <<103>>, <<500>>, <<105>>>>,
          <<<<100>>, <<>>, <<0>>, <<104>>, <<104>>, <<100>>>>}
PairBalancesB(n) ==
    IF n < 6 THEN [1..n -> {<<>>, <<50>>}]
    ELSE {<<<<50>>, <<50>>, <<50>>, <<50>>, <<50>>, <<50>>>>,
          <<<<50>>, <<0>>, <<>>, <<100>>, <<50>>, <<60>>>>}
\* In the second dataset B is absent everywhere, 70 everywhere, or 70 at
\* every other point.
TwinBalancesB(n) ==
    IF n < 6 THEN {[j \in 1..n |-> <<>>], [j \in 1..n |-> <<70>>],
                   [j \in 1..n |-> IF j % 2 = 1 THEN <<70>> ELSE <<>>]}
    ELSE {<<<<>>, <<>>, <<>>, <<>>, <<>>, <<>>>>,
          <<<<500>>, <<100>>, <<0>>, <<>>, <<70>>, <<1>>>>}

dataOf(a, b) ==
    [x \in (IF a = <<>> THEN {} ELSE {"A"}) \cup (IF b = <<>> THEN {} ELSE {"B"}) |->
        IF x = "A" THEN a[1] ELSE b[1]]
historyOf(dates, a, b) ==
    [j \in 1..Len(dates) |-> [date |-> dates[j], data |-> dataOf(a[j], b[j])]]

PairQueries ==
    {[route |-> "projections", calculationPeriodMonths |-> c, projectionPeriodMonths |-> p] :
        <<c, p>> \in {<< <<3>>, <<3>> >>, << <<12>>, <<4>> >>}}

InitPair ==
    /\ categories \in {<<CatA, CatB>>, <<CatB, CatA>>}
    /\ \E dates \in PairDates :
           \E a \in PairBalancesA(Len(dates)) :
               /\ history \in {historyOf(dates, a, b) : b \in PairBalancesB(Len(dates))}
               /\ twinHistory \in {historyOf(dates, a, b) : b \in TwinBalancesB(Len(dates))}
    /\ now = MakeDay(2024, 4, 31)
    /\ request = NoRequest
    /\ response = NoResponse
    /\ twinResponse = NoResponse
    /\ pc = "ready"
    /\ projArgs = NoProjArgs /\ projRet = <<>>
    /\ rateArgs = NoRateArgs /\ rateRet = NoRate
    /\ IdleStore

GetProjectionsDataTwice ==
    /\ pc = "ready"
    /\ \E query \in PairQueries :
           /\ request' = query
           /\ response' = projectionsData(query, categories, history, now)
           /\ twinResponse' = projectionsData(query, categories, twinHistory, now)
    /\ pc' = "done"
    /\ UNCHANGED <<storeVars, categories, history, now, twinHistory, projArgs, projRet, rateArgs, rateRet>>

NextPair == GetProjectionsDataTwice

SpecPair == InitPair /\ [][NextPair]_vars

-----------------------------------------------------------------------------
(* Requests to GET /finances/history over a persisted document.             *)

FilterDates == {YMD(2023, 5, 30), YMD(2024, 2, 30), YMD(2024, 3, 2), YMD(2024, 6, 10)}
FilterHistories ==
    UNION {[1..n -> [date : FilterDates, data : {("A" :> 100)}]] : n \in 0..MaxHistory}

\* Absent, two calendar dates, "2024-13-45", "2024-02-30", and "soon".
BoundParams == {<<>>, <<YMD(2024, 3, 2)>>, <<YMD(2024, 6, 10)>>, <<YMD(2024, 13, 45)>>,
                <<YMD(2024, 2, 30)>>, <<OtherString>>}
PeriodParams == {<<>>, <<"3months">>, <<"1year">>, <<"all">>, <<"weekly">>}
FilterQueries == [route : {"history"}, from : BoundParams, to : BoundParams, period : PeriodParams]

InitFilter ==
    /\ categories = <<CatA>>
    /\ history \in FilterHistories
    /\ now \in Clocks
    /\ request = NoRequest
    /\ response = NoResponse
    /\ twinHistory = <<>> /\ twinResponse = NoResponse
    /\ pc = "ready"
    /\ projArgs = NoProjArgs /\ projRet = <<>>
    /\ rateArgs = NoRateArgs /\ rateRet = NoRate
    /\ IdleStore

GetHistory ==
    /\ pc = "ready"
    /\ \E query \in FilterQueries :
           /\ request' = query
           /\ response' = historyData(query, categories, history, now)
    /\ pc' = "done"
    /\ UNCHANGED <<storeVars, categories, history, now, twinHistory, twinResponse,
                   projArgs, projRet, rateArgs, rateRet>>

NextFilter == GetHistory

SpecFilter == InitFilter /\ [][NextFilter]_vars

-----------------------------------------------------------------------------
(* Requests to GET /finances/breakdown over a persisted document.  The      *)
(* document is any one that PUT /finances/data stores: the points of its    *)
(* history are in any order.                                                 *)

BreakdownHistories == UNION {[1..n -> HistoryPoints] : n \in 0..MaxHistory}
BreakdownQueries ==
    [route : {"breakdown"}, from : {<<>>, <<YMD(2024, 3, 2)>>}, to : {<<>>},
     period : {<<>>, <<"3months">>, <<"all">>}]

InitBreakdown ==
    /\ categories \in CategoryLists
    /\ history \in BreakdownHistories
    /\ now \in Clocks
    /\ request = NoRequest
    /\ response = NoResponse
    /\ twinHistory = <<>> /\ twinResponse = NoResponse
    /\ pc = "ready"
    /\ projArgs = NoProjArgs /\ projRet = <<>>
    /\ rateArgs = NoRateArgs /\ rateRet = NoRate
    /\ IdleStore

GetBreakdown ==
    /\ pc = "ready"
    /\ \E query \in BreakdownQueries :
           /\ request' = query
           /\ response' = breakdownData(query, categories, history, now)
    /\ pc' = "done"
    /\ UNCHANGED <<storeVars, categories, history, now, twinHistory, twinResponse,
                   projArgs, projRet, rateArgs, rateRet>>

NextBreakdown == GetBreakdown

SpecBreakdown == InitBreakdown /\ [][NextBreakdown]_vars

-----------------------------------------------------------------------------
(* The store under mutation: callers of the service methods and of          *)
(* PUT /finances/data, each advancing from one await to the next, and the   *)
(* Data page with its local copy of the document.                           *)

MaxOperations == 3

StorePoint(date, balance) == [date |-> date, data |-> ("A" :> balance)]

\* The documents the store starts from: the default document and a document
\* with one category and one point.  The Data page is mounted and has loaded
\* the document.
StoreDocs == {Doc(<<>>, <<>>), Doc(<<CatA>>, <<StorePoint(YMD(2024, 3, 1), 100)>>)}

\* The point of an existing date string, of the same day written as a
\* date-time, of an earlier day, and of a string that is no date.
ServicePoints ==
    {StorePoint(d, 200) : d \in {YMD(2024, 3, 1), YMDT(2024, 3, 1), YMD(2024, 1, 15), OtherString}}

ServiceOperations ==
    {[kind |-> "addCategory", category |-> c] : c \in {CatA, CatB}}
    \cup {[kind |-> "updateCategory", categoryName |-> "A", updates |-> u] :
             u \in {[name |-> "B"], [color |-> "#222222"]}}
    \cup {[kind |-> "removeCategory", categoryName |-> "A"]}
    \cup {[kind |-> "addHistoryPoint", historyPoint |-> p] : p \in ServicePoints}

\* Request bodies of PUT /finances/data: a history in descending order, a
\* category name twice, a date string twice, and a date that does not parse.
PutBodies ==
    {Doc(<<CatA, CatB>>, <<StorePoint(YMD(2024, 4, 15), 300), StorePoint(YMD(2024, 3, 1), 100)>>),
     Doc(<<CatA, [name |-> "A", color |-> "#222222"]>>, <<>>),
     Doc(<<CatA>>, <<StorePoint(YMD(2024, 3, 1), 100), StorePoint(YMD(2024, 3, 1), 300)>>),
     Doc(<<CatA>>, <<StorePoint(OtherString, 100)>>)}

\* What the page's inputs are set to
PageNames == {"B"}
PageDates == {YMD(2024, 1, 15)}

\* The document in the data file
Persisted == [categories |-> categories, history |-> history, lastUpdated |-> lastUpdated]

\* The time new Date().toISOString() gives: the server's clock has ticked once
\* for every operation and page event started so far.
timestampNow == MaxOperations - budget

InitStore ==
    /\ \E doc \in StoreDocs : categories = doc.categories /\ history = doc.history
    /\ lastUpdated = <<0>>
    /\ disk = DataFileOnly
    /\ container = Production
    /\ now = MakeDay(2024, 5, 15)
    /\ callers = [c \in StoreCallers |-> IdleCaller]
    /\ lock = 0
    /\ pageData = <<Persisted>>
    /\ budget = MaxOperations
    /\ request = NoRequest
    /\ response = NoResponse
    /\ twinHistory = <<>> /\ twinResponse = NoResponse
    /\ pc = "ready"
    /\ projArgs = NoProjArgs /\ projRet = <<>>
    /\ rateArgs = NoRateArgs /\ rateRet = NoRate

requestVars == <<now, request, response, twinHistory, twinResponse, projArgs, projRet,
                 rateArgs, rateRet, pc>>

persistedVars == <<categories, history, lastUpdated, disk>>

Free(c) == callers[c].pc \in {"idle", "done"}

\* A service method is called: it awaits readFinancesData().
CallService(c) ==
    /\ budget > 0 /\ Free(c)
    /\ \E op \in ServiceOperations :
           callers' = [callers EXCEPT ![c] = [IdleCaller EXCEPT !.pc = "reading", !.op = op]]
    /\ budget' = budget - 1
    /\ UNCHANGED <<persistedVars, lock, pageData, requestVars, container>>

\* router.put('/data') up to the await of the lock: FinancesDataSchema.parse
\* of the body in the handler and again in write().
putData(c, body, origin) ==
    callers' = [callers EXCEPT ![c] =
                   IF FinancesDataSchema(body)
                   THEN [pc |-> "locking", op |-> [kind |-> "put", origin |-> origin],
                         data |-> body, result |-> NoResult]
                   ELSE [pc |-> "done", op |-> [kind |-> "put", origin |-> origin],
                         data |-> Doc(<<>>, <<>>),
                         result |-> ApiError(400, "VALIDATION_ERROR")]]

PutData(c) ==
    /\ budget > 0 /\ Free(c)
    /\ \E body \in PutBodies : putData(c, body, "api")
    /\ budget' = budget - 1
    /\ UNCHANGED <<persistedVars, lock, pageData, requestVars, container>>

\* The read resolves with the document of the data file; the method changes
\* its copy and calls write(), which validates and awaits the lock.  An
\* ApiError of the method or a ZodError of write() ends the call.
Read(c) ==
    /\ callers[c].pc = "reading"
    /\ callers[c].op.kind # "read"
    /\ disk[DataFilePath] = "whole"
    /\ LET ret == serviceMethod(callers[c].op, Persisted, timestampNow)
       IN  callers' = [callers EXCEPT ![c] =
               IF ret.error # <<>>
               THEN [@ EXCEPT !.pc = "done", !.result = ret.error[1]]
               ELSE IF ~FinancesDataSchema(ret.data)
               THEN [@ EXCEPT !.pc = "done", !.result = ApiError(400, "VALIDATION_ERROR")]
               ELSE [@ EXCEPT !.pc = "locking", !.data = ret.data]]
    /\ UNCHANGED <<persistedVars, lock, pageData, budget, requestVars, container>>

\* Mutant of Lock: the lock is handed out whether or not it is held.
Lock_unguarded(c) ==
    /\ callers[c].pc = "locking"
    /\ lock' = c
    /\ callers' = [callers EXCEPT ![c].pc = "writing"]
    /\ UNCHANGED <<persistedVars, pageData, budget, requestVars, container>>

\* fileSystem.lock resolves: the lock was free.  proper-lockfile resolves the
\* real path of the file first, so under FileSystemService the file is there.
Lock(c) ==
    /\ callers[c].pc = "locking"
    /\ lock = 0
    /\ container.fileSystem = "FileSystemService" => disk[DataFilePath] # "none"
    /\ lock' = c
    /\ callers' = [callers EXCEPT ![c].pc = "writing"]
    /\ UNCHANGED <<persistedVars, pageData, budget, requestVars, container>>

\* fileSystem.lock rejects: the lock is held and the retries are used up.
\* release is still null, so the finally block releases nothing.
LockBusy(c) ==
    /\ callers[c].pc = "locking"
    /\ lock # 0
    /\ callers' = [callers EXCEPT ![c] =
                      [@ EXCEPT !.pc = "done", !.data = Doc(<<>>, <<>>),
                                !.result = writeError(heldLockMessage(container.fileSystem))]]
    /\ UNCHANGED <<persistedVars, lock, pageData, budget, requestVars, container>>

\* fileSystem.mkdir has resolved and atomicWrite has called writeFile on the
\* temporary file, which is being written.
WriteTemp(c) ==
    /\ callers[c].pc = "writing"
    /\ container.fileSystem = "FileSystemService"
    /\ disk' = [disk EXCEPT ![tempFilePath(DataFilePath)] = "partial"]
    /\ callers' = [callers EXCEPT ![c].pc = "renaming"]
    /\ UNCHANGED <<categories, history, lastUpdated, lock, pageData, budget, requestVars,
                   container>>

\* writeFile has resolved and rename resolves: the temporary file, which holds
\* the whole document, has replaced the data file.
Rename(c) ==
    /\ callers[c].pc = "renaming"
    /\ disk' = [disk EXCEPT ![tempFilePath(DataFilePath)] = "none", ![DataFilePath] = "whole"]
    /\ categories' = callers[c].data.categories
    /\ history' = callers[c].data.history
    /\ lastUpdated' = callers[c].data.lastUpdated
    /\ callers' = [callers EXCEPT ![c] = [@ EXCEPT !.pc = "releasing", !.result = Success]]
    /\ UNCHANGED <<lock, pageData, budget, requestVars, container>>

\* fileSystem.mkdir rejects, or writeFile or rename rejects and atomicWrite
\* unlinks the temporary file: the catch block throws WRITE_ERROR.
WriteFails(c) ==
    /\ callers[c].pc \in {"writing", "renaming"}
    /\ container.fileSystem = "FileSystemService"
    /\ disk' = IF callers[c].pc = "renaming"
               THEN [disk EXCEPT ![tempFilePath(DataFilePath)] = "none"]
               ELSE disk
    /\ callers' = [callers EXCEPT ![c] =
                      [@ EXCEPT !.pc = "releasing",
                                !.result = writeError("ENOSPC: no space left on device")]]
    /\ UNCHANGED <<categories, history, lastUpdated, lock, pageData, budget, requestVars,
                   container>>

\* Mutant of Release: the lock is released after a write that succeeded only.
Release_afterSuccess(c) ==
    /\ callers[c].pc = "releasing"
    /\ lock' = IF callers[c].result = Success THEN 0 ELSE lock
    /\ callers' = [callers EXCEPT ![c] = [@ EXCEPT !.pc = "done"]]
    /\ UNCHANGED <<persistedVars, pageData, budget, requestVars, container>>

\* The finally block releases the lock and the call returns or throws; a
\* read() that wrote the default document returns it, and the page that sent
\* a PUT sets its data to the document in the response.
Release(c) ==
    /\ callers[c].pc = "releasing"
    /\ lock' = 0
    /\ callers' = [callers EXCEPT ![c] =
                      [@ EXCEPT !.pc = "done",
                                !.data = IF callers[c].op.kind = "read"
                                            /\ callers[c].result = Success
                                         THEN @ ELSE Doc(<<>>, <<>>)]]
    /\ pageData' = IF callers[c].op.kind = "put" /\ callers[c].op.origin = "page"
                      /\ callers[c].result = Success
                   THEN <<callers[c].data>>
                   ELSE pageData
    /\ UNCHANGED <<persistedVars, budget, requestVars, container>>

\* Data.fetchData: GET /finances/data answers with the persisted document.
FetchData ==
    /\ budget > 0
    /\ pageData' = <<Persisted>>
    /\ budget' = budget - 1
    /\ UNCHANGED <<persistedVars, callers, lock, requestVars, container>>

\* A control of the loaded page is used: setData(updater).
EditData ==
    /\ budget > 0
    /\ pageData # <<>>
    /\ LET prevData == pageData[1]
       IN  \/ pageData' = <<DataAddCategory(prevData)>>
           \/ \E index \in 1..Len(prevData.categories), name \in PageNames :
                  pageData' = <<DataUpdateCategory(prevData, index,
                                    [prevData.categories[index] EXCEPT !.name = name])>>
           \/ \E index \in 1..Len(prevData.categories) :
                  pageData' = <<DataRemoveCategory(prevData, index)>>
           \/ pageData' = <<DataAddHistoryRecord(prevData, now)>>
           \/ \E index \in 1..Len(prevData.history), date \in PageDates :
                  pageData' = <<DataUpdateHistoryRecord(prevData, index,
                                    [prevData.history[index] EXCEPT !.date = date])>>
           \/ \E index \in 1..Len(prevData.history) :
                  pageData' = <<DataRemoveHistoryRecord(prevData, index)>>
    /\ budget' = budget - 1
    /\ UNCHANGED <<persistedVars, callers, lock, requestVars, container>>

\* Data.saveData: PUT /finances/data with the history sorted by date.
SaveData(c) ==
    /\ budget > 0 /\ Free(c)
    /\ pageData # <<>>
    /\ putData(c, sortedData(pageData[1]), "page")
    /\ budget' = budget - 1
    /\ UNCHANGED <<persistedVars, lock, pageData, requestVars, container>>

NextStore ==
    \/ \E c \in StoreCallers :
           \/ CallService(c) \/ PutData(c) \/ SaveData(c)
           \/ Read(c) \/ Lock(c) \/ LockBusy(c)
           \/ WriteTemp(c) \/ Rename(c) \/ WriteFails(c) \/ Release(c)
    \/ FetchData
    \/ EditData

SpecStore == InitStore /\ [][NextStore]_vars

-----------------------------------------------------------------------------
(* The repository under direct calls of read() and write(data): the file     *)
(* repository over the file system of the application or over the in-memory  *)
(* one, and the in-memory repository.  For the in-memory implementations     *)
(* disk[DataFilePath] tells whether the document is there (data !== null,    *)
(* files.has(filePath)).                                                      *)

Containers ==
    {Production,
     [repository |-> "FileFinancesRepository", fileSystem |-> "MockFileSystemService"],
     [repository |-> "MockFinancesRepository", fileSystem |-> "none"]}

NoFile == [path \in {DataFilePath, tempFilePath(DataFilePath)} |-> "none"]

Ten == "aaaaaaaaaa"
Name100 == Ten \o Ten \o Ten \o Ten \o Ten \o Ten \o Ten \o Ten \o Ten \o Ten
Name101 == Name100 \o "a"

\* The documents write() is called with: two that meet the schema (one with a
\* name of 100 characters and a balance of 0), and one each with a negative
\* balance, an empty name, a name of 101 characters, a colour that is no hex
\* colour and a date that does not parse.
ValidDocs ==
    {Doc(<<CatA>>, <<StorePoint(YMD(2024, 3, 1), 250)>>),
     Doc(<<[name |-> Name100, color |-> "#6B7280"]>>,
         <<[date |-> YMD(2024, 3, 1), data |-> (Name100 :> 0)]>>)}

InvalidDocs ==
    {Doc(<<CatA>>, <<StorePoint(YMD(2024, 3, 1), -1)>>),
     Doc(<<[name |-> "", color |-> "#111111"]>>, <<>>),
     Doc(<<[name |-> Name101, color |-> "#111111"]>>, <<>>),
     Doc(<<[name |-> "A", color |-> "red"]>>, <<>>),
     Doc(<<CatA>>, <<StorePoint(OtherString, 100)>>)}

WriteDocs == ValidDocs \cup InvalidDocs

InitRepo ==
    /\ container \in Containers
    /\ \/ /\ disk = DataFileOnly
          /\ \E doc \in StoreDocs : categories = doc.categories /\ history = doc.history
          /\ lastUpdated = <<0>>
       \/ /\ disk = NoFile
          /\ categories = <<>> /\ history = <<>> /\ lastUpdated = <<>>
    /\ now = MakeDay(2024, 5, 15)
    /\ callers = [c \in StoreCallers |-> IdleCaller]
    /\ lock = 0
    /\ pageData = <<>>
    /\ budget = MaxOperations
    /\ request = NoRequest
    /\ response = NoResponse
    /\ twinHistory = <<>> /\ twinResponse = NoResponse
    /\ pc = "ready"
    /\ projArgs = NoProjArgs /\ projRet = <<>>
    /\ rateArgs = NoRateArgs /\ rateRet = NoRate

\* FileFinancesRepository.read() is called: it awaits mkdir and readFile.
CallRead(c) ==
    /\ budget > 0 /\ Free(c)
    /\ container.repository = "FileFinancesRepository"
    /\ callers' = [callers EXCEPT ![c] =
                      [IdleCaller EXCEPT !.pc = "reading", !.op = [kind |-> "read"]]]
    /\ budget' = budget - 1
    /\ UNCHANGED <<persistedVars, lock, pageData, requestVars, container>>

\* readFile settles.  A whole file is parsed, validated and returned; a file
\* that is being written is no JSON; with no file, readFile rejects with
\* ENOENT and read() calls write(defaultData), which validates the default
\* document and awaits the lock.
RepositoryRead(c) ==
    /\ callers[c].pc = "reading"
    /\ callers[c].op.kind = "read"
    /\ callers' = [callers EXCEPT ![c] =
           CASE disk[DataFilePath] = "whole" ->
                    IF FinancesDataSchema(Persisted)
                    THEN [@ EXCEPT !.pc = "done", !.result = Success, !.data = Persisted]
                    ELSE [@ EXCEPT !.pc = "done", !.result = ApiError(500, "VALIDATION_ERROR")]
             [] disk[DataFilePath] = "partial" ->
                    [@ EXCEPT !.pc = "done", !.result = ApiError(500, "INVALID_FORMAT")]
             [] disk[DataFilePath] = "none" ->
                    [@ EXCEPT !.pc = "locking",
                              !.data = [Doc(<<>>, <<>>) EXCEPT !.lastUpdated = <<timestampNow>>]]]
    /\ UNCHANGED <<persistedVars, lock, pageData, budget, requestVars, container>>

\* mkdir or readFile rejects with an error other than ENOENT.
ReadFails(c) ==
    /\ callers[c].pc = "reading"
    /\ callers[c].op.kind = "read"
    /\ container.fileSystem = "FileSystemService"
    /\ callers' = [callers EXCEPT ![c] =
                      [@ EXCEPT !.pc = "done", !.result = ApiError(500, "READ_ERROR")]]
    /\ UNCHANGED <<persistedVars, lock, pageData, budget, requestVars, container>>

\* FileFinancesRepository.write(data) is called from a handler:
\* FinancesDataSchema.parse(data) throws a ZodError, which handleError
\* answers, or write() awaits the lock.
CallWrite(c) ==
    /\ budget > 0 /\ Free(c)
    /\ container.repository = "FileFinancesRepository"
    /\ \E data \in WriteDocs :
           callers' = [callers EXCEPT ![c] =
               IF FinancesDataSchema(data)
               THEN [pc |-> "locking", op |-> [kind |-> "write", data |-> data],
                     data |-> data, result |-> NoResult]
               ELSE [pc |-> "done", op |-> [kind |-> "write", data |-> data],
                     data |-> Doc(<<>>, <<>>),
                     result |-> handleError(ZodError(zodIssues(data)))]]
    /\ budget' = budget - 1
    /\ UNCHANGED <<persistedVars, lock, pageData, requestVars, container>>

\* FileSystemService.lock rejects because the data file is not there:
\* proper-lockfile cannot resolve its real path (ENOENT).  release is null.
LockMissing(c) ==
    /\ callers[c].pc = "locking"
    /\ container.fileSystem = "FileSystemService"
    /\ disk[DataFilePath] = "none"
    /\ callers' = [callers EXCEPT ![c] =
                      [@ EXCEPT !.pc = "done", !.data = Doc(<<>>, <<>>),
                                !.result = writeError("ENOENT: no such file or directory")]]
    /\ UNCHANGED <<persistedVars, lock, pageData, budget, requestVars, container>>

\* MockFileSystemService.atomicWrite: files.set(filePath, content).
MockAtomicWrite(c) ==
    /\ callers[c].pc = "writing"
    /\ container.fileSystem = "MockFileSystemService"
    /\ disk' = [disk EXCEPT ![DataFilePath] = "whole"]
    /\ categories' = callers[c].data.categories
    /\ history' = callers[c].data.history
    /\ lastUpdated' = callers[c].data.lastUpdated
    /\ callers' = [callers EXCEPT ![c] = [@ EXCEPT !.pc = "releasing", !.result = Success]]
    /\ UNCHANGED <<lock, pageData, budget, requestVars, container>>

\* MockFinancesRepository.read(): the document, or a default document that
\* is returned and not kept.
MockRead(c) ==
    /\ budget > 0 /\ Free(c)
    /\ container.repository = "MockFinancesRepository"
    /\ callers' = [callers EXCEPT ![c] =
           [pc |-> "done", op |-> [kind |-> "read"], result |-> Success,
            data |-> IF disk[DataFilePath] = "none"
                     THEN [Doc(<<>>, <<>>) EXCEPT !.lastUpdated = <<timestampNow + 1>>]
                     ELSE Persisted]]
    /\ budget' = budget - 1
    /\ UNCHANGED <<persistedVars, lock, pageData, requestVars, container>>

\* MockFinancesRepository.write(data): the validated document is kept.
MockWrite(c) ==
    /\ budget > 0 /\ Free(c)
    /\ container.repository = "MockFinancesRepository"
    /\ \E data \in WriteDocs :
           IF FinancesDataSchema(data)
           THEN /\ callers' = [callers EXCEPT ![c] =
                       [pc |-> "done", op |-> [kind |-> "write", data |-> data],
                        data |-> Doc(<<>>, <<>>), result |-> Success]]
                /\ disk' = [disk EXCEPT ![DataFilePath] = "whole"]
                /\ categories' = data.categories
                /\ history' = data.history
                /\ lastUpdated' = data.lastUpdated
           ELSE /\ callers' = [callers EXCEPT ![c] =
                       [pc |-> "done", op |-> [kind |-> "write", data |-> data],
                        data |-> Doc(<<>>, <<>>),
                        result |-> handleError(ZodError(zodIssues(data)))]]
                /\ UNCHANGED persistedVars
    /\ budget' = budget - 1
    /\ UNCHANGED <<lock, pageData, requestVars, container>>

NextRepo ==
    \E c \in StoreCallers :
        \/ CallRead(c) \/ RepositoryRead(c) \/ ReadFails(c) \/ CallWrite(c)
        \/ Lock(c) \/ LockMissing(c) \/ LockBusy(c)
        \/ WriteTemp(c) \/ Rename(c) \/ MockAtomicWrite(c) \/ WriteFails(c) \/ Release(c)
        \/ MockRead(c) \/ MockWrite(c)

SpecRepo == InitRepo /\ [][NextRepo]_vars

\* A caller that holds the lock is awaiting mkdir, writeFile, rename or
\* release(); each of them settles, and a rejection runs the catch and the
\* finally block.
HolderStep(c) ==
    WriteTemp(c) \/ Rename(c) \/ MockAtomicWrite(c) \/ WriteFails(c) \/ Release(c)

SpecRepoFair == SpecRepo /\ \A c \in StoreCallers : WF_vars(HolderStep(c))

-----------------------------------------------------------------------------
(* Properties of generateProjections (SpecProject).                         *)

ProjExample ==
    /\ projArgs.lastValue = 1000
    /\ projArgs.monthlyRate = R(1, 20)
    /\ projArgs.projectionMonths = 3

\* C1: the i-th projected value is max(0, lastValue * (1 + monthlyRate * i)),
\* a function of the anchor value and the step index alone; 1000 at 5% over 3
\* months gives 1050, 1100, 1150 and not the compounding 1050, 1102.5, 1157.625.
C1_LinearFromAnchor ==
    pc = "done" =>
        /\ \A i \in 1..Len(projRet) :
               LET linear == R(projArgs.lastValue * (projArgs.monthlyRate.d + projArgs.monthlyRate.n * i),
                               projArgs.monthlyRate.d)
               IN  projRet[i].value = (IF linear.n < 0 THEN Zero ELSE linear)
        /\ ProjExample =>
               /\ [i \in 1..Len(projRet) |-> projRet[i].value] = <<RInt(1050), RInt(1100), RInt(1150)>>
               /\ projRet[2].value # R(11025, 10)

C1_Witness ==
    /\ pc = "done"
    /\ ProjExample
    /\ Len(projRet) = 3
    /\ projRet[3].value = RInt(1150)

\* C8: generateProjections returns exactly projectionMonths points, none for 0.
C8_LengthIsMonths ==
    pc = "done" => Len(projRet) = projArgs.projectionMonths

C8_Witness ==
    /\ pc = "done"
    /\ projArgs.projectionMonths = MaxProjectionMonths
    /\ Len(projRet) = MaxProjectionMonths

\* C9: every projected value is >= 0, also where lastValue * (1 + monthlyRate * i)
\* is below 0.
C9_NonNegative ==
    pc = "done" => \A i \in 1..Len(projRet) : projRet[i].value.n >= 0

C9_Witness ==
    /\ pc = "done"
    /\ Len(projRet) >= 1
    /\ projArgs.lastValue > 0
    /\ projArgs.monthlyRate.d + projArgs.monthlyRate.n * 1 < 0
    /\ projRet[1].value = Zero

-----------------------------------------------------------------------------
(* Properties of calculateGrowthRate (SpecRate).                            *)

\* The indices (1-based) of the values that have a previous value > 0.
EligiblePairs(values) == {i \in 2..Len(values) : values[i - 1] > 0}

\* The claim's two paths, from the input alone.
RobustCase(values) == Len(values) >= 6 /\ EligiblePairs(values) # {}
FallbackCase(values) ==
    \/ Len(values) \in 2..5
    \/ Len(values) >= 6 /\ EligiblePairs(values) = {}

\* C2: |monthlyRate| <= 0.5 when the robust path produced it, <= 0.1 when the
\* fallback path produced it.
C2_ClampBound ==
    pc = "done" =>
        /\ RobustCase(rateArgs.values) => RLe(RAbs(rateRet.monthlyRate), R(1, 2))
        /\ FallbackCase(rateArgs.values) => RLe(RAbs(rateRet.monthlyRate), R(1, 10))

\* The cap binds: one eligible pair, a growth of +300%.
C2_Witness ==
    /\ pc = "done"
    /\ RobustCase(rateArgs.values)
    /\ \E i \in EligiblePairs(rateArgs.values) :
           rateArgs.values[i] > 2 * rateArgs.values[i - 1]
    /\ rateRet.monthlyRate = R(1, 2)

\* The growth of pair i, clamped to [-0.5, +0.5].
ClampedGrowth(values, i) ==
    LET g == R(values[i] - values[i - 1], values[i - 1])
    IN  IF RLt(g, R(-1, 2)) THEN R(-1, 2) ELSE IF RLt(R(1, 2), g) THEN R(1, 2) ELSE g

\* The j-th smallest of the clamped growths of the eligible pairs.
OrderStatistic(values, j) ==
    CHOOSE x \in {ClampedGrowth(values, i) : i \in EligiblePairs(values)} :
        /\ Cardinality({i \in EligiblePairs(values) : RLt(ClampedGrowth(values, i), x)}) < j
        /\ Cardinality({i \in EligiblePairs(values) : RLe(ClampedGrowth(values, i), x)}) >= j

MedianOfClampedGrowths(values) ==
    LET k == Cardinality(EligiblePairs(values))
    IN  IF k % 2 = 1 THEN OrderStatistic(values, (k + 1) \div 2)
        ELSE RDiv(RAdd(OrderStatistic(values, k \div 2), OrderStatistic(values, (k \div 2) + 1)),
                  RInt(2))

\* C3: with >= 6 values and an eligible pair, monthlyRate is the median of the
\* clamped growths of exactly the pairs whose previous value is > 0, and
\* annualRate is 12 times it; the series with one spike stays near 1% a month.
C3_MedianOfClampedGrowths ==
    pc = "done" =>
        /\ RobustCase(rateArgs.values) =>
               /\ rateRet.monthlyRate = MedianOfClampedGrowths(rateArgs.values)
               /\ rateRet.annualRate = R(12 * rateRet.monthlyRate.n, rateRet.monthlyRate.d)
        /\ rateArgs.values = SpikeValues =>
               /\ RLe(R(9, 1000), rateRet.monthlyRate)
               /\ RLe(rateRet.monthlyRate, R(11, 1000))

C3_Witness ==
    /\ pc = "done"
    /\ rateArgs.values = SpikeValues
    /\ rateRet.monthlyRate = R(1, 101)
    /\ rateRet.annualRate = R(12, 101)

\* C4: {0, 0} for fewer than 2 values, and on the fallback path whenever
\* monthsDiff <= 0 or the first value is <= 0.
C4_InsufficientSignal ==
    pc = "done" =>
        /\ Len(rateArgs.values) < 2 => rateRet = [monthlyRate |-> Zero, annualRate |-> Zero]
        /\ ( /\ FallbackCase(rateArgs.values)
             /\ \/ rateArgs.dates[Len(rateArgs.dates)] - rateArgs.dates[1] <= 0
                \/ rateArgs.values[1] <= 0 )
           => rateRet = [monthlyRate |-> Zero, annualRate |-> Zero]

\* The fallback path with a first value of 0, a later last date and a last value > 0.
C4_Witness ==
    /\ pc = "done"
    /\ FallbackCase(rateArgs.values)
    /\ rateArgs.values[1] = 0
    /\ rateArgs.values[Len(rateArgs.values)] > 0
    /\ rateArgs.dates[Len(rateArgs.dates)] > rateArgs.dates[1]
    /\ rateRet = [monthlyRate |-> Zero, annualRate |-> Zero]

-----------------------------------------------------------------------------
(* Properties of GET /projections/data (SpecRequest).                       *)

\* The request was served with a configuration: its query passed the schema.
ServedWithConfig ==
    /\ pc = "done"
    /\ request.route = "projections"
    /\ ProjectionConfigSchema(request).ok

RequestConfig == ProjectionConfigSchema(request).config

\* The positions of the stored history points inside the calculation window:
\* date >= today - calculationPeriodMonths.
InWindow ==
    {j \in 1..Len(history) :
        DateParse(history[j].date) >= calculationStartDate(now, RequestConfig)}

\* C5: for every configuration, an empty stored history fails with NO_DATA; a
\* non-empty history with fewer than 2 points in the window fails with
\* INSUFFICIENT_DATA; any other history returns series; a failure carries
\* neither series nor growth rates.
C5_RequestOutcomes ==
    ServedWithConfig =>
        /\ history = <<>> =>
               response = [kind |-> "error", status |-> 404, code |-> "NO_DATA"]
        /\ (history # <<>> /\ Cardinality(InWindow) < 2) =>
               response = [kind |-> "error", status |-> 400, code |-> "INSUFFICIENT_DATA"]
        /\ Cardinality(InWindow) >= 2 =>
               response.kind = "ok" /\ {"series", "growthRates"} \subseteq DOMAIN response
        /\ response.kind = "error" =>
               DOMAIN response \cap {"series", "growthRates"} = {}

C5_Witness ==
    /\ ServedWithConfig
    /\ history = <<>>
    /\ request.calculationPeriodMonths = <<3>>
    /\ response.code = "NO_DATA"

\* The historical point a stored point gives for a category.
HistoricalPoint(j, name) ==
    [date |-> DateParse(history[j].date),
     value |-> RInt(IF name \in DOMAIN history[j].data THEN history[j].data[name] ELSE 0),
     isProjected |-> FALSE]

\* C6: a successful response has one series per category, in category order;
\* each series is the window's points in ascending date order, whatever the
\* stored order, with the category's balance (0 when absent) and
\* isProjected = FALSE, followed by exactly projectionPeriodMonths points
\* with isProjected = TRUE.
C6_SeriesShape ==
    (ServedWithConfig /\ response.kind = "ok") =>
        /\ Len(response.series) = Len(categories)
        /\ \A k \in 1..Len(categories) :
               LET name == categories[k].name
                   data == response.series[k].data
                   w == Cardinality(InWindow)
               IN  /\ response.series[k].name = name
                   /\ Len(data) = w + RequestConfig.projectionPeriodMonths
                   /\ \A i \in 1..Len(data) : data[i].isProjected = (i > w)
                   /\ \A i \in 1..(w - 1) : data[i].date <= data[i + 1].date
                   /\ \A j \in InWindow :
                          Cardinality({i \in 1..w : data[i] = HistoricalPoint(j, name)})
                              = Cardinality({j2 \in InWindow :
                                    HistoricalPoint(j2, name) = HistoricalPoint(j, name)})

\* The history is stored out of date order, with a point that lacks A.
C6_Witness ==
    /\ ServedWithConfig
    /\ response.kind = "ok"
    /\ Len(categories) = 2
    /\ \E i, j \in InWindow :
           /\ i < j
           /\ DateParse(history[i].date) > DateParse(history[j].date)
           /\ "A" \notin DOMAIN history[i].data
    /\ \E k \in 1..2 :
           /\ response.series[k].name = "A"
           /\ response.series[k].data[Cardinality(InWindow)].value = Zero
           /\ response.series[k].data[Cardinality(InWindow) + 1].isProjected

-----------------------------------------------------------------------------
(* Properties of two requests over datasets that agree on a category        *)
(* (SpecPair).                                                              *)

\* The two histories have the same dates and the same balances of category name.
AgreeOn(name, h1, h2) ==
    /\ Len(h1) = Len(h2)
    /\ \A j \in 1..Len(h1) :
           /\ h1[j].date = h2[j].date
           /\ (name \in DOMAIN h1[j].data) = (name \in DOMAIN h2[j].data)
           /\ name \in DOMAIN h1[j].data => h1[j].data[name] = h2[j].data[name]

\* C7: two datasets with the same history dates and the same balances of
\* category A get the same series and the same growth rate for A, whatever
\* their balances of the other categories.
C7_CategoriesIndependent ==
    (pc = "done" /\ AgreeOn("A", history, twinHistory)) =>
        /\ response.kind = twinResponse.kind
        /\ response.kind = "ok" =>
               \A k \in 1..Len(categories) :
                   categories[k].name = "A" =>
                       /\ response.series[k] = twinResponse.series[k]
                       /\ response.growthRates[k] = twinResponse.growthRates[k]

\* The datasets differ in B at every point, and A is on the robust path.
C7_Witness ==
    /\ pc = "done"
    /\ AgreeOn("A", history, twinHistory)
    /\ response.kind = "ok"
    /\ Len(history) = 6
    /\ \A j \in 1..6 : history[j].data # twinHistory[j].data
    /\ \E k \in 1..Len(categories) :
           /\ categories[k].name = "A"
           /\ twinResponse.growthRates[k].monthlyRate = R(1, 101)
           /\ twinResponse.series[k] = response.series[k]
    /\ response.series # twinResponse.series

-----------------------------------------------------------------------------
(* Properties of GET /finances/history (SpecFilter).                        *)

\* The string is no calendar date: it does not parse, or its month or day of
\* month does not exist.
NotCalendarDate(s) ==
    \/ s.form # "YYYY-MM-DD"
    \/ s.m \notin 1..12
    \/ s.d \notin 1..DaysInMonth(s.y, s.m)

HasInvalidBound(query) ==
    \/ query.from # <<>> /\ NotCalendarDate(query.from[1])
    \/ query.to # <<>> /\ NotCalendarDate(query.to[1])

\* C10: a from or to date that is unparseable or no calendar date (such as
\* 2024-13-45) is rejected with a validation failure; no result is returned
\* in which the bound was treated as absent.
C10_InvalidBoundRejected ==
    (pc = "done" /\ request.route = "history" /\ HasInvalidBound(request)) =>
        response = [kind |-> "error", status |-> 400, code |-> "VALIDATION_ERROR"]

\* The request just served was a GET /finances/history that passed the schema.
HistoryServed == pc = "done" /\ request.route = "history" /\ response.kind = "ok"

\* C11: filtering is idempotent: for any history and any filter (any
\* combination of from, to and period) at the same clock, filtering the
\* filtered history again returns it unchanged.
C11_FilterIdempotent ==
    HistoryServed =>
        /\ response.history = filterHistoryData(history, request, now)
        /\ filterHistoryData(response.history, request, now) = response.history

\* A filter that dropped one point of two was applied again.
C11_Witness ==
    /\ HistoryServed
    /\ Len(history) = 2
    /\ Len(response.history) = 1
    /\ filterHistoryData(response.history, request, now) = response.history

DatesOf(records) == {records[i].date : i \in 1..Len(records)}
PeriodFilter(p) == [from |-> <<>>, to |-> <<>>, period |-> <<p>>]
PeriodDates(p) == DatesOf(filterHistoryData(history, PeriodFilter(p), now))

\* C12: for the same history and clock the dates returned for period 'all'
\* contain those returned for '1year', which contain those returned for
\* '3months'; also with future-dated points and on a month-end day.
C12_PeriodMonotone ==
    (HistoryServed /\ request.period # <<>>) =>
        /\ request.period[1] = "3months" =>
               /\ DatesOf(response.history) \subseteq PeriodDates("1year")
               /\ DatesOf(response.history) \subseteq PeriodDates("all")
        /\ request.period[1] = "1year" =>
               /\ PeriodDates("3months") \subseteq DatesOf(response.history)
               /\ DatesOf(response.history) \subseteq PeriodDates("all")
        /\ request.period[1] = "all" =>
               /\ PeriodDates("3months") \subseteq DatesOf(response.history)
               /\ PeriodDates("1year") \subseteq DatesOf(response.history)
               /\ DatesOf(response.history) = DatesOf(history)

\* On 2024-05-31, with a future-dated point in the history, the three periods
\* return three different sets of dates.
C12_Witness ==
    /\ HistoryServed
    /\ request.period = <<"1year">>
    /\ now = MakeDay(2024, 4, 31)
    /\ \E i \in 1..Len(history) : DateParse(history[i].date) > now
    /\ PeriodDates("3months") # DatesOf(response.history)
    /\ DatesOf(response.history) # DatesOf(history)
    /\ response.history # <<>>

\* A bound that is absent or a calendar date.
CalendarBound(param) == param = <<>> \/ ~NotCalendarDate(param[1])

InBounds(record, query) ==
    /\ query.from # <<>> => DateParse(record.date) >= DateParse(query.from[1])
    /\ query.to # <<>> => DateParse(record.date) <= DateParse(query.to[1])

KeptInOrder(records, query) ==
    LET Keep(record) == InBounds(record, query)
    IN  SelectSeq(records, Keep)

\* C13: with explicit calendar-date bounds and no period a history point is
\* kept if and only if its date is >= from (when given) and <= to (when
\* given); with no from, to or period the history is returned unchanged; the
\* kept points keep their relative order and the stored list is not changed.
C13_ExplicitBounds ==
    [][(/\ pc = "ready" /\ pc' = "done"
        /\ request'.route = "history" /\ response'.kind = "ok"
        /\ request'.period = <<>>
        /\ CalendarBound(request'.from) /\ CalendarBound(request'.to))
       => /\ response'.history = KeptInOrder(history, request')
          /\ (request'.from = <<>> /\ request'.to = <<>>) => response'.history = history
          /\ history' = history]_vars

\* Both bounds were given and one point of two fell outside them.
C13_Witness ==
    /\ HistoryServed
    /\ request.period = <<>>
    /\ request.from = <<YMD(2024, 3, 2)>> /\ request.to = <<YMD(2024, 6, 10)>>
    /\ Len(history) = 2
    /\ Len(response.history) = 1
    /\ DateParse(history[1].date) < DateParse(request.from[1])

\* C14: a supplied period takes precedence over from and to: the result is
\* that of the period alone whatever from and to are, and period 'all'
\* returns the full list unmodified.
C14_PeriodPrecedence ==
    (HistoryServed /\ request.period # <<>>) =>
        /\ response.history = filterHistoryData(history, PeriodFilter(request.period[1]), now)
        /\ request.period[1] = "all" => response.history = history

\* A period was served together with bounds that, alone, would have given a
\* different result.
C14_Witness ==
    /\ HistoryServed
    /\ request.period # <<>>
    /\ request.from # <<>> /\ request.to # <<>>
    /\ response.history #
           filterHistoryData(history, [request EXCEPT !.period = <<>>], now)
    /\ response.history # <<>>

-----------------------------------------------------------------------------
(* Properties of GET /finances/breakdown (SpecBreakdown).                   *)

BreakdownServed == pc = "done" /\ request.route = "breakdown" /\ response.kind = "ok"

\* The breakdown of the categories against one history point.
BreakdownOf(cats, point) ==
    [k \in 1..Len(cats) |->
        [category |-> cats[k].name,
         value |-> IF cats[k].name \in DOMAIN point.data THEN point.data[cats[k].name] ELSE 0,
         color |-> cats[k].color]]

ValuesTotal(breakdown) ==
    LET RECURSIVE upTo(_)
        upTo(k) == IF k = 0 THEN 0 ELSE upTo(k - 1) + breakdown[k].value
    IN  upTo(Len(breakdown))

\* C15: the breakdown lists every category in category order with the
\* balance it has in the most recent point of the filtered history (0 when
\* absent from that point) and its colour, and total is the sum of the
\* listed values.
C15_BreakdownOfLatest ==
    BreakdownServed =>
        LET filtered == filterHistoryData(history, request, now)
        IN  /\ \E i \in 1..Len(filtered) :
                   /\ \A j \in 1..Len(filtered) :
                          DateParse(filtered[j].date) <= DateParse(filtered[i].date)
                   /\ response.breakdown = BreakdownOf(categories, filtered[i])
            /\ response.total = ValuesTotal(response.breakdown)

-----------------------------------------------------------------------------
(* Properties of the projection configuration (SpecRequest).                *)

\* A query parameter brought into [lo, hi], the default when it is absent.
ClampedInto(param, lo, hi, dflt) ==
    IF param = <<>> THEN dflt
    ELSE IF param[1] < lo THEN lo
    ELSE IF param[1] > hi THEN hi
    ELSE param[1]

\* C16: the effective calculationPeriodMonths is an integer in [3,24] and
\* projectionPeriodMonths an integer in [3,60]: a supplied value outside its
\* range is clamped into the range and an absent value defaults to 12.
C16_ConfigClamped ==
    (pc = "done" /\ request.route = "projections") =>
        LET parsed == ProjectionConfigSchema(request)
        IN  /\ parsed.ok
            /\ parsed.config.calculationPeriodMonths =
                   ClampedInto(request.calculationPeriodMonths, 3, 24, 12)
            /\ parsed.config.projectionPeriodMonths =
                   ClampedInto(request.projectionPeriodMonths, 3, 60, 12)
            /\ ~(response.kind = "error" /\ response.code = "VALIDATION_ERROR")

-----------------------------------------------------------------------------
(* Properties of the store under mutation (SpecStore).                      *)

Succeeded(c) == callers[c].pc = "done" /\ callers[c].result = Success
HasCategory(name) == \E i \in 1..Len(categories) : categories[i].name = name
HasPoint(point) == \E i \in 1..Len(history) : history[i] = point

\* Two operations were started, one by each caller, and nothing else was done.
OnlyTheseTwo == budget = MaxOperations - 2 /\ \A c \in StoreCallers : callers[c].op # NoOperation

\* C17: when two callers run addCategory with different names, or addCategory
\* and addHistoryPoint, concurrently on the same document and both report
\* success, the persisted document has the effect of both: no successful
\* update is lost under any interleaving.
C17_NoLostUpdate ==
    (/\ OnlyTheseTwo
     /\ Succeeded(1) /\ Succeeded(2)
     /\ callers[1].op.kind = "addCategory"
     /\ callers[2].op.kind \in {"addCategory", "addHistoryPoint"})
    => /\ HasCategory(callers[1].op.category.name)
       /\ callers[2].op.kind = "addCategory" => HasCategory(callers[2].op.category.name)
       /\ callers[2].op.kind = "addHistoryPoint" => HasPoint(callers[2].op.historyPoint)

\* C18: category names are unique in the persisted document after any
\* sequence of successful mutations, starting from a document with unique
\* names.
C18_UniqueNames ==
    \A i, j \in 1..Len(categories) : i # j => categories[i].name # categories[j].name

\* C19: history dates are unique in the persisted document after any
\* sequence of successful mutations: no two points denote the same calendar
\* date.
C19_UniqueDates ==
    \A i, j \in 1..Len(history) :
        i # j => DateParse(history[i].date) # DateParse(history[j].date)

\* C20: the persisted history is in ascending date order after every
\* successful mutation.
C20_Ascending ==
    \A i \in 1..(Len(history) - 1) :
        DateParse(history[i].date) <= DateParse(history[i + 1].date)

\* Only the operation of caller c has been started, and it has succeeded; the
\* Data page still holds the document as it was before the call.
OnlyCall(c) == budget = MaxOperations - 1 /\ Succeeded(c)

\* after has the history of before with the balances under old moved to new
Migrated(before, after, old, new) ==
    /\ Len(after.history) = Len(before.history)
    /\ \A i \in 1..Len(before.history) :
           LET b == before.history[i].data
               a == after.history[i].data
           IN  /\ old \notin DOMAIN a
               /\ old \in DOMAIN b => new \in DOMAIN a /\ a[new] = b[old]
               /\ \A k \in (DOMAIN b) \ {old, new} : k \in DOMAIN a /\ a[k] = b[k]

\* C21: after a successful updateCategory that renames category old to new,
\* every history point that held a balance under old holds the same balance
\* under new, no history point has a key old, and the balances of the other
\* categories are unchanged.
C21_RenameMigrates ==
    \A c \in StoreCallers :
        (/\ OnlyCall(c)
         /\ callers[c].op.kind = "updateCategory"
         /\ "name" \in DOMAIN callers[c].op.updates
         /\ callers[c].op.updates.name # callers[c].op.categoryName)
        => Migrated(pageData[1], Persisted,
                    callers[c].op.categoryName, callers[c].op.updates.name)

\* C22: after each successful write of the document, through a service method
\* or through PUT /finances/data, the persisted lastUpdated is the time of
\* that write, not a value carried over from the caller's input or from the
\* previous document.
C22_LastUpdatedRefreshed ==
    \A c \in StoreCallers :
        (OnlyCall(c) /\ callers[c].op.kind # "read") => lastUpdated = <<timestampNow>>

\* after is before without the category called name: the other categories in
\* their order, the same dates, and in every point the other balances.
Removed(before, after, name) ==
    /\ \A i \in 1..Len(after.categories) : after.categories[i].name # name
    /\ LET Other(c) == c.name # name
       IN  after.categories = SelectSeq(before.categories, Other)
    /\ Len(after.history) = Len(before.history)
    /\ \A i \in 1..Len(before.history) :
           /\ after.history[i].date = before.history[i].date
           /\ DOMAIN after.history[i].data = (DOMAIN before.history[i].data) \ {name}
           /\ \A k \in DOMAIN after.history[i].data :
                  after.history[i].data[k] = before.history[i].data[k]

RemoveCall(c) == callers[c].op.kind = "removeCategory"

\* C29: removeCategory(name), under any interleaving with other operations:
\* when the document it reads has a category called name, the document it
\* hands to the write is that document without the category and without the
\* key name in any history point, everything else as read, and a successful
\* write persists exactly this document; when the document has no such
\* category the call fails with a not-found error and has persisted nothing.
C29_RemoveCategoryFrame ==
    [][\A c \in StoreCallers :
          /\ (RemoveCall(c) /\ callers[c].pc = "reading" /\ callers'[c].pc # "reading") =>
                 IF \E i \in 1..Len(categories) : categories[i].name = callers[c].op.categoryName
                 THEN /\ callers'[c].pc = "locking"
                      /\ Removed(Persisted, callers'[c].data, callers[c].op.categoryName)
                 ELSE /\ callers'[c].pc = "done"
                      /\ callers'[c].result = ApiError(404, "CATEGORY_NOT_FOUND")
                      /\ UNCHANGED persistedVars
          /\ (RemoveCall(c) /\ callers[c].pc = "renaming" /\ callers'[c].result = Success) =>
                 /\ categories' = callers[c].data.categories
                 /\ history' = callers[c].data.history
          /\ (RemoveCall(c) /\ callers[c].pc # "renaming" /\ callers'[c] # callers[c]) =>
                 UNCHANGED <<categories, history>>]_vars

\* A removeCategory("A") has succeeded on the document that had the category
\* and a balance under it: the point is left with its date and no balance.
C29_Witness ==
    \E c \in StoreCallers :
        /\ OnlyCall(c) /\ RemoveCall(c)
        /\ categories = <<>>
        /\ Len(history) = 1 /\ DOMAIN history[1].data = {}

-----------------------------------------------------------------------------
(* Projected dates of generateProjections (SpecProject).                     *)

\* The calendar month i months after the month of lastDate, as a count of
\* months since year 0.
MonthsAfter(lastDate, i) == YearOf(lastDate) * 12 + MonthOf(lastDate) + i

\* C30: for every lastDate (any day of the month, the 29th to 31st included)
\* and every i in 1..months the i-th projected date lies in the i-th calendar
\* month after the month of lastDate, so the projected points fall in
\* consecutive calendar months, are strictly increasing and are all later
\* than lastDate.
C30_ConsecutiveMonths ==
    pc = "done" =>
        /\ \A i \in 1..Len(projRet) :
               /\ YearOf(projRet[i].date) * 12 + MonthOf(projRet[i].date)
                      = MonthsAfter(projArgs.lastDate, i)
               /\ projRet[i].date > projArgs.lastDate
        /\ \A i \in 1..(Len(projRet) - 1) : projRet[i].date < projRet[i + 1].date

-----------------------------------------------------------------------------
(* Properties of the repository (SpecRepo, SpecRepoFair).                    *)

ReadCall(c) == callers[c].op.kind = "read"
WriteCall(c) == callers[c].op.kind = "write"

\* Caller c is in write() between the lock it acquired and its release
Writing(c) == callers[c].pc \in {"writing", "renaming", "releasing"}

\* C23: readers never observe a partially written document.  The data file
\* is never a file that is being written; a read() that returns data returns
\* the whole document of the data file; the document of the data file changes
\* only in a step that puts the whole document of one successful write in its
\* place; and a write that fails after it created the temporary file leaves
\* the data file as it was and no temporary file behind.
C23_NoPartialRead ==
    /\ [](disk[DataFilePath] # "partial")
    /\ [][/\ \A c \in StoreCallers :
                /\ (ReadCall(c) /\ callers[c].pc = "reading" /\ callers'[c].result = Success) =>
                       disk[DataFilePath] = "whole" /\ callers'[c].data = Persisted
                /\ (callers[c].pc = "renaming" /\ callers'[c].result # Success
                    /\ callers'[c].pc # "renaming") =>
                       /\ UNCHANGED <<categories, history, lastUpdated>>
                       /\ disk'[DataFilePath] = disk[DataFilePath]
                       /\ disk'[tempFilePath(DataFilePath)] = "none"
          /\ Persisted' # Persisted =>
                 \E c \in StoreCallers :
                     /\ callers'[c].result = Success
                     /\ disk'[DataFilePath] = "whole"
                     /\ \/ Persisted' = callers[c].data
                        \/ WriteCall(c)' /\ Persisted' = callers'[c].op.data]_vars

\* A read() has returned the document of the data file while a write() of
\* another document has its temporary file half written.
C23_Witness ==
    \E r, w \in StoreCallers :
        /\ ReadCall(r) /\ callers[r].pc = "done" /\ callers[r].result = Success
        /\ callers[r].data = Persisted
        /\ callers[w].pc = "renaming" /\ callers[w].data # Persisted
        /\ disk[tempFilePath(DataFilePath)] = "partial"

\* C24: when write() cannot obtain the lock because another writer holds it,
\* the call fails with the retryable conflict (409, FILE_BUSY), not with the
\* permanent write failure (500, WRITE_ERROR), and the persisted document is
\* unchanged.
C24_ConflictIsFileBusy ==
    [][\A c \in StoreCallers :
          (callers[c].pc = "locking" /\ lock # 0 /\ callers'[c].pc = "done") =>
              /\ callers'[c].result = ApiError(409, "FILE_BUSY")
              /\ UNCHANGED persistedVars]_vars

\* The issue names a field that data has
FieldOf(data, issue) ==
    /\ issue.list \in {"categories", "history"}
    /\ issue.list = "categories" =>
           /\ issue.index \in 1..Len(data.categories)
           /\ issue.field \in {"name", "color"}
    /\ issue.list = "history" =>
           /\ issue.index \in 1..Len(data.history)
           /\ issue.field \in {"date", "data"}
           /\ issue.field = "data" => issue.key \in DOMAIN data.history[issue.index].data

\* C25: a write of a document that violates the data model (a negative
\* balance, an empty or over-100-character name, a colour that is not 6 hex
\* digits, an unparseable date) fails with a validation error that names the
\* offending field, takes no lock and leaves the persisted document as it
\* was; every persisted document meets the schema, so every persisted balance
\* is >= 0 in every reachable state.
C25_InvalidWriteRejected ==
    /\ [](\A c \in StoreCallers :
              (WriteCall(c) /\ callers[c].op.data \in InvalidDocs) =>
                  /\ callers[c].pc = "done"
                  /\ lock # c
                  /\ callers[c].result.status = 400
                  /\ callers[c].result.code = "VALIDATION_ERROR"
                  /\ callers[c].result.details # {}
                  /\ \A issue \in callers[c].result.details :
                         FieldOf(callers[c].op.data, issue))
    /\ [](\A i \in 1..Len(history) : \A k \in DOMAIN history[i].data : history[i].data[k] >= 0)
    /\ [](\A i \in 1..Len(categories) :
              /\ Len(categories[i].name) \in 1..100
              /\ categories[i].color \in HexColors)
    /\ [](\A i \in 1..Len(history) : DateParse(history[i].date) # NaN)
    /\ [][\A c \in StoreCallers :
             (WriteCall(c)' /\ callers'[c].op.data \in InvalidDocs /\ callers'[c] # callers[c]) =>
                 UNCHANGED <<persistedVars, lock>>]_vars

\* The write of the document with the balance -1 was rejected with the issue
\* at history[1].data.A; the data file holds the document it held before.
C25_Witness ==
    \E c \in StoreCallers :
        /\ WriteCall(c) /\ callers[c].pc = "done"
        /\ callers[c].op.data = Doc(<<CatA>>, <<StorePoint(YMD(2024, 3, 1), -1)>>)
        /\ callers[c].result = [status |-> 400, code |-> "VALIDATION_ERROR",
                                details |-> {Field("history", 1, "data", "A")}]
        /\ budget = MaxOperations - 1
        /\ Len(history) = 1 /\ history[1].data["A"] = 100

\* C26: when no data file exists, the first read() creates it and returns a
\* document with empty categories and empty history; after a read() has
\* returned the store exists, and every read() that finds the store returns
\* the persisted document.
C26_FirstReadCreates ==
    /\ [](\A c \in StoreCallers :
              (ReadCall(c) /\ callers[c].pc = "done" /\ callers[c].result = Success) =>
                  disk[DataFilePath] = "whole")
    /\ [][\A c \in StoreCallers :
             /\ (ReadCall(c) /\ callers[c].pc = "locking" /\ lock = 0
                 /\ callers'[c].pc # "locking") => callers'[c].pc = "writing"
             /\ (ReadCall(c) /\ callers[c].pc = "releasing" /\ callers[c].result = Success
                 /\ callers'[c].pc = "done") =>
                    /\ callers'[c].data.categories = <<>>
                    /\ callers'[c].data.history = <<>>
             /\ (ReadCall(c) /\ callers[c].pc = "reading" /\ disk[DataFilePath] = "whole"
                 /\ callers'[c].result = Success) => callers'[c].data = Persisted]_vars

\* C27: under any interleaving of write() calls at most one call is between
\* acquiring the lock and releasing it, and it is the call that holds the
\* lock: at most one writer at a time writes the temporary file and renames
\* it.
C27_MutualExclusion ==
    \A c, d \in StoreCallers :
        /\ Writing(c) => lock = c
        /\ (Writing(c) /\ Writing(d)) => c = d

\* One write() has written its temporary file while the other awaits the lock.
C27_Witness ==
    \E c, d \in StoreCallers :
        /\ WriteCall(c) /\ WriteCall(d)
        /\ callers[c].pc = "renaming" /\ callers[d].pc = "locking"

=============================================================================
